---- MODULE Spec2Model ----
(***************************************************************************)
(* The cleaning-and-assessment engine of the data-clean service            *)
(* (src/data-clean/data_cleaner.py, quality_checker.py) as a state         *)
(* machine: a caller's table is assessed, then taken through the seven     *)
(* stages of DataCleaner.clean_data, one action per stage.                 *)
(*                                                                         *)
(* Representation.                                                         *)
(*   - A string is a sequence of character codes (ASCII).  A code of       *)
(*     IsoBase + t stands for the complete ISO-8601 text of the time       *)
(*     point t (what datetime.now().isoformat() returns at time t).        *)
(*   - A number is an exact fraction n/d in lowest terms, d > 0.  Every    *)
(*     number the model meets has a power of two as denominator and a      *)
(*     small numerator, so it is exactly a float64 and the exact           *)
(*     arithmetic below is the float64 arithmetic of the code.             *)
(*   - A cell is [t, n, d, s]: t is "null" (NaN/None/NaT), "num", "str"    *)
(*     or "ts" (a timestamp, time point n).                                *)
(*   - A column is [name, dtype, vals]; a table (DataFrame) is             *)
(*     [index, cols]: the row labels and the columns in order.             *)
(*   - A score is a fraction, in percent.                                  *)
(***************************************************************************)
EXTENDS Integers, Sequences, FiniteSets, TLC

VARIABLES
    input,       \* the table as the caller built it (never assigned by the engine)
    df,          \* the caller's table object, as it is now
    cleaned_df,  \* clean_data's working table
    pc,          \* where the caller / clean_data stands
    clock,       \* wall-clock time at the last reading of the clock
    report,      \* what assess_data_quality(df) gave
    pass,        \* 1 for clean_data(T), 2 for clean_data(clean_data(T)), ...
    shared,      \* the shared data directory: raw files, cleaned files, summaries
    redis,       \* the Redis store: key -> value
    svc,         \* the DataCleanService instances: where each stands in its cycle
    allas,       \* the objects of the Allas container
    ingest       \* the DataIngestService instance: where it stands in its cycle

engine_vars == <<input, df, cleaned_df, pc, report, pass>>
service_vars == <<shared, redis, svc, allas, ingest>>
vars == <<input, df, cleaned_df, pc, clock, report, pass, shared, redis, svc, allas, ingest>>

-----------------------------------------------------------------------------
(* Bounds of the model. *)

MaxRows == 2      \* rows of the enumerated one-column tables
MaxPairRows == 1  \* rows of the enumerated two-column tables
MaxNameCols == 2  \* columns of the tables enumerated over column names
ShortRamp == 5    \* rows of the short ramp table 1, 2, ..., n-1, last
MaxRamp == 21     \* rows of the longest ramp table; the one before has MaxRamp - 1
MaxSparse == 21   \* rows of the longest table with a sparse column
LargeRows == 1019       \* rows of the large table
LargeDuplicates == 51   \* rows of the large table that repeat its first row
CaseRows == 10
ShareRows == 35
MaxUlps == 4
Far == 100        \* the far value a ramp may end with
MaxClock == 1     \* time points 0..MaxClock
MaxPass == 2      \* clean_data is run on its own output up to this depth

-----------------------------------------------------------------------------
(* Exact fractions. *)

Abs(x) == IF x < 0 THEN -x ELSE x

RECURSIVE GCD(_, _)
GCD(a, b) == IF b = 0 THEN a ELSE GCD(b, a % b)

Reduce(n, d, g) ==
    [n |-> (IF d < 0 THEN -n ELSE n) \div g, d |-> (IF d < 0 THEN -d ELSE d) \div g]

(* The fraction n/d (d # 0) in lowest terms. *)
Rat(n, d) == Reduce(n, d, GCD(Abs(n), Abs(d)))

RLt(a, b) == a.n * b.d < b.n * a.d
RLe(a, b) == a.n * b.d <= b.n * a.d
RAdd(a, b) == Rat(a.n * b.d + b.n * a.d, a.d * b.d)
RSub(a, b) == Rat(a.n * b.d - b.n * a.d, a.d * b.d)
RMul(a, b) == Rat(a.n * b.n, a.d * b.d)
RDiv(a, b) == Rat(a.n * b.d, a.d * b.n)
RInt(k) == [n |-> k, d |-> 1]

(* round(x, 2) of a non-negative x, in hundredths: round half to even, as   *)
(* numpy's and Python's round do.                                           *)
RoundHundredths(x) ==
    LET num == x.n * 100
        q == num \div x.d
        r2 == 2 * (num % x.d)
    IN  IF r2 > x.d \/ (r2 = x.d /\ q % 2 = 1) THEN q + 1 ELSE q

(* round(x, 2) *)
Round2(x) == Rat(RoundHundredths(x), 100)

-----------------------------------------------------------------------------
(* Sequences. *)

Range(s) == {s[i] : i \in DOMAIN s}

RECURSIVE SelectIdx(_, _, _)
(* The positions i of 1..n, in order, with keep[i]. *)
SelectIdx(n, keep, i) ==
    IF i > n THEN <<>>
    ELSE (IF keep[i] THEN <<i>> ELSE <<>>) \o SelectIdx(n, keep, i + 1)

Pick(s, idx) == [k \in DOMAIN idx |-> s[idx[k]]]

Count(s, P(_)) == Cardinality({i \in DOMAIN s : P(s[i])})

(* The sorted sequence rest with x put in at its place, after k elements. *)
InsertAt(rest, x, k) == SubSeq(rest, 1, k) \o <<x>> \o SubSeq(rest, k + 1, Len(rest))
Insert(rest, x) ==
    InsertAt(rest, x, Cardinality({i \in DOMAIN rest : RLt(rest[i], x)}))

RECURSIVE SortRat(_)
(* Ascending sort of a sequence of fractions. *)
SortRat(s) == IF s = <<>> THEN <<>> ELSE Insert(SortRat(Tail(s)), Head(s))

-----------------------------------------------------------------------------
(* Strings: sequences of character codes, and Python's str methods on them. *)

IsoBase == 1000     \* IsoBase + t: the text of datetime.now().isoformat() at time t
IsoLowBase == 2000  \* IsoLowBase + t: that text lowercased ('T' became 't')

IsoText(t) == <<IsoBase + t>>

IsIsoChar(c) == c >= IsoBase
IsoTime(c) == IF c >= IsoLowBase THEN c - IsoLowBase ELSE c - IsoBase

IsUpperChar(c) == (c >= 65 /\ c <= 90) \/ (c >= IsoBase /\ c < IsoLowBase)
IsLowerChar(c) == (c >= 97 /\ c <= 122) \/ c >= IsoLowBase
IsDigitChar(c) == c >= 48 /\ c <= 57
IsSpaceChar(c) == c = 32 \/ c = 9
(* \w of Python's re: letters, digits and the underscore. *)
IsWordChar(c) ==
    \/ (c >= 65 /\ c <= 90) \/ (c >= 97 /\ c <= 122)
    \/ IsDigitChar(c) \/ c = 95

LowerChar(c) ==
    IF c >= 65 /\ c <= 90 THEN c + 32
    ELSE IF c >= IsoBase /\ c < IsoLowBase THEN c - IsoBase + IsoLowBase
    ELSE c

(* str.lower() *)
str_lower(s) == [i \in DOMAIN s |-> LowerChar(s[i])]

RECURSIVE LStrip(_)
LStrip(s) == IF s # <<>> /\ IsSpaceChar(Head(s)) THEN LStrip(Tail(s)) ELSE s

RECURSIVE RStrip(_)
RStrip(s) ==
    IF s # <<>> /\ IsSpaceChar(s[Len(s)]) THEN RStrip(SubSeq(s, 1, Len(s) - 1)) ELSE s

(* str.strip() *)
str_strip(s) == RStrip(LStrip(s))

(* str.islower(): some cased character and no uppercase one. *)
str_islower(s) ==
    /\ \E i \in DOMAIN s : IsLowerChar(s[i])
    /\ \A i \in DOMAIN s : ~IsUpperChar(s[i])

(* str.isupper(): some cased character and no lowercase one. *)
str_isupper(s) ==
    /\ \E i \in DOMAIN s : IsUpperChar(s[i])
    /\ \A i \in DOMAIN s : ~IsLowerChar(s[i])

(* str.replace(old, new) for a one-character old. *)
ReplaceChar(s, old, new) == [i \in DOMAIN s |-> IF s[i] = old THEN new ELSE s[i]]

RECURSIVE ReplacePair(_, _, _)
(* str.replace(cc, c) for a two-character old 'cc' and new <<c>>: one pass,  *)
(* left to right, over non-overlapping occurrences.                         *)
ReplacePair(s, old, new) ==
    IF Len(s) < 2 THEN s
    ELSE IF s[1] = old /\ s[2] = old
         THEN <<new>> \o ReplacePair(SubSeq(s, 3, Len(s)), old, new)
         ELSE <<s[1]>> \o ReplacePair(Tail(s), old, new)

(* re.sub(r'[^\w_]', '', s) *)
RemoveNonWord(s) == SelectSeq(s, IsWordChar)

RECURSIVE DigitsValue(_)
DigitsValue(s) ==
    IF s = <<>> THEN 0 ELSE 10 * DigitsValue(SubSeq(s, 1, Len(s) - 1)) + (s[Len(s)] - 48)

RECURSIVE DigitsOf(_)
(* str(k) of a natural number k. *)
DigitsOf(k) == IF k < 10 THEN <<48 + k>> ELSE DigitsOf(k \div 10) \o <<48 + (k % 10)>>

Unknown == <<117, 110, 107, 110, 111, 119, 110>>   \* 'unknown'
NanText == <<110, 97, 110>>                        \* 'nan'
NowText == <<110, 111, 119>>                       \* 'now'
ColPrefix == <<99, 111, 108, 95>>                  \* 'col_'
IngestedAt == <<105, 110, 103, 101, 115, 116, 101, 100, 95, 97, 116>>   \* 'ingested_at'
DataSource == <<100, 97, 116, 97, 95, 115, 111, 117, 114, 99, 101>>     \* 'data_source'
CleanedAt == <<99, 108, 101, 97, 110, 101, 100, 95, 97, 116>>           \* 'cleaned_at'
CompletenessScore ==                                                     \* 'completeness_score'
    <<99, 111, 109, 112, 108, 101, 116, 101, 110, 101, 115, 115, 95,
      115, 99, 111, 114, 101>>

(* No column name at all: what the stages would skip if none were metadata. *)
no_metadata_cols == {}

(* ['ingested_at', 'data_source'] *)
metadata_cols == {IngestedAt, DataSource}

-----------------------------------------------------------------------------
(* Cells, columns, tables. *)

Null == [t |-> "null", n |-> 0, d |-> 1, s |-> <<>>]
Num(r) == [t |-> "num", n |-> r.n, d |-> r.d, s |-> <<>>]
NumInt(k) == [t |-> "num", n |-> k, d |-> 1, s |-> <<>>]
Str(s) == [t |-> "str", n |-> 0, d |-> 1, s |-> s]
Ts(k) == [t |-> "ts", n |-> k, d |-> 1, s |-> <<>>]

isna(c) == c.t = "null"
notna(c) == c.t # "null"
RatOf(c) == [n |-> c.n, d |-> c.d]

Column(name, dtype, vals) == [name |-> name, dtype |-> dtype, vals |-> vals]
Table(index, cols) == [index |-> index, cols |-> cols]

EmptyTable == Table(<<>>, <<>>)

(* len(df) *)
NRows(t) == Len(t.index)
(* df.columns *)
Columns(t) == [j \in DOMAIN t.cols |-> t.cols[j].name]
ColumnSet(t) == {t.cols[j].name : j \in DOMAIN t.cols}

(* The present values of a column, in row order (series.dropna()). *)
dropna(vals) == SelectSeq(vals, notna)

(* df[mask]: the rows at positions idx, all columns. *)
TakeRows(t, idx) ==
    Table(Pick(t.index, idx),
          [j \in DOMAIN t.cols |->
              Column(t.cols[j].name, t.cols[j].dtype, Pick(t.cols[j].vals, idx))])

(* Row i of the table restricted to the columns at positions js. *)
RowKey(t, js, i) == [k \in DOMAIN js |-> t.cols[js[k]].vals[i]]

(* The positions of the columns whose name is not in names. *)
ColsNotIn(t, names) ==
    SelectIdx(Len(t.cols), [j \in DOMAIN t.cols |-> t.cols[j].name \notin names], 1)

AllCols(t) == [j \in DOMAIN t.cols |-> j]

-----------------------------------------------------------------------------
(* DataCleaner (src/data-clean/data_cleaner.py). *)

(* df.drop_duplicates(subset=js, keep='last'): the rows with no later row   *)
(* equal on the columns js.                                                 *)
drop_duplicates_keep_last(t, js) ==
    IF Len(t.cols) = 0 \/ NRows(t) = 0 THEN t
    ELSE TakeRows(t, SelectIdx(NRows(t),
            [i \in 1..NRows(t) |->
                \A k \in (i + 1)..NRows(t) : RowKey(t, js, k) # RowKey(t, js, i)], 1))

(* df.drop_duplicates(subset=js, keep='first'): the rows with no earlier    *)
(* row equal on the columns js (NaN equals NaN); a frame with no rows or    *)
(* no columns is returned as it is.                                         *)
drop_duplicates(t, js) ==
    IF Len(t.cols) = 0 \/ NRows(t) = 0 THEN t
    ELSE TakeRows(t, SelectIdx(NRows(t),
            [i \in 1..NRows(t) |->
                \A k \in 1..(i - 1) : RowKey(t, js, k) # RowKey(t, js, i)], 1))

(* _remove_duplicates *)
remove_duplicates(t) ==
    IF ColsNotIn(t, metadata_cols) # <<>> THEN drop_duplicates(t, ColsNotIn(t, metadata_cols))
    ELSE drop_duplicates(t, AllCols(t))

(* f'col_{clean_name}' for a leading digit; 'col_<loc>' for an empty name *)
prefix_name(c, loc) ==
    IF c = <<>> THEN ColPrefix \o DigitsOf(loc)
    ELSE IF IsDigitChar(c[1]) THEN ColPrefix \o c ELSE c

(* The clean name of a non-metadata column at 0-based position loc. *)
clean_name(col, loc) ==
    prefix_name(
        RemoveNonWord(
            ReplacePair(
                ReplaceChar(ReplaceChar(ReplaceChar(str_strip(str_lower(col)),
                                                    32, 95), 45, 95), 46, 95),
                95, 95)),
        loc)

(* A renaming that puts 'col_' before every non-metadata column name. *)
prefix_column_names(t) ==
    Table(t.index,
          [j \in DOMAIN t.cols |->
              IF t.cols[j].name \in metadata_cols THEN t.cols[j]
              ELSE Column(ColPrefix \o t.cols[j].name, t.cols[j].dtype, t.cols[j].vals)])

(* _clean_column_names *)
clean_column_names(t) ==
    Table(t.index,
          [j \in DOMAIN t.cols |->
              IF t.cols[j].name \in metadata_cols THEN t.cols[j]
              ELSE Column(clean_name(t.cols[j].name, j - 1),
                          t.cols[j].dtype, t.cols[j].vals)])

(* The present values of a numeric column as fractions, in row order. *)
Present(vals) == [i \in DOMAIN dropna(vals) |-> RatOf(dropna(vals)[i])]

(* The median of the sorted sequence s of n >= 1 numbers. *)
median_sorted(s, n) ==
    IF n % 2 = 1 THEN s[(n + 1) \div 2]
    ELSE RDiv(RAdd(s[n \div 2], s[n \div 2 + 1]), RInt(2))

(* series.median(): of the present values. *)
median(vals) == median_sorted(SortRat(Present(vals)), Len(dropna(vals)))

(* Order of the values of one column (numbers and timestamps by value). *)
CellLt(a, b) == RLt(RatOf(a), RatOf(b))

(* series.mode()[0]: the most frequent present value, the smallest of them  *)
(* when several are equally frequent.                                       *)
Freq(p, v) == Cardinality({i \in DOMAIN p : p[i] = v})
Smallest(best) == CHOOSE v \in best : \A w \in best : ~CellLt(w, v)
mode_of(p) == Smallest({v \in Range(p) : \A w \in Range(p) : Freq(p, w) <= Freq(p, v)})
mode0(vals) == mode_of(dropna(vals))

RECURSIVE ffill(_, _)
(* series.fillna(method='ffill'): an absent value takes the last present    *)
(* value before it, if any.                                                 *)
ffill(vals, last) ==
    IF vals = <<>> THEN <<>>
    ELSE IF isna(Head(vals)) THEN <<last>> \o ffill(Tail(vals), last)
    ELSE <<Head(vals)>> \o ffill(Tail(vals), Head(vals))

fillna(vals, v) == [i \in DOMAIN vals |-> IF isna(vals[i]) THEN v ELSE vals[i]]

NullCount(vals) == Cardinality({i \in DOMAIN vals : isna(vals[i])})

IsNumericDtype(dtype) == dtype \in {"int64", "float64"}

(* Every absent value filled with 'unknown', whatever the kind. *)
impute_unknown(col) == Column(col.name, col.dtype, fillna(col.vals, Str(Unknown)))

(* The imputation of one kept column with some absent value. *)
impute(col) ==
    IF col.dtype = "object" THEN Column(col.name, col.dtype, fillna(col.vals, Str(Unknown)))
    ELSE IF IsNumericDtype(col.dtype)
         THEN Column(col.name, "float64",
                     IF dropna(col.vals) = <<>> THEN col.vals    \* the median is NaN
                     ELSE fillna(col.vals, Num(median(col.vals))))
    ELSE IF dropna(col.vals) # <<>>
         THEN Column(col.name, col.dtype, fillna(col.vals, mode0(col.vals)))
    ELSE Column(col.name, col.dtype, ffill(col.vals, Null))

(* missing_pct > 90 and missing_pct > 0, for missing_pct =                  *)
(* isna().sum() / len(df) * 100 (NaN, and both comparisons false, when      *)
(* the table has no rows).                                                  *)
MissingAtLeast90(col, nrows) == nrows > 0 /\ NullCount(col.vals) * 100 >= 90 * nrows
(* The same of the share of absent values, not of their percentage. *)
MissingShareOver90(col, nrows) == nrows > 0 /\ NullCount(col.vals) > 90 * nrows
MissingOver90(col, nrows) == nrows > 0 /\ NullCount(col.vals) * 100 > 90 * nrows
MissingOver0(col, nrows) == nrows > 0 /\ NullCount(col.vals) > 0

(* df[col] is a DataFrame, not a Series, when the label col is borne by     *)
(* several columns: 'if missing_pct > 90' then raises ValueError.           *)
AmbiguousLabel(t) ==
    \E j, k \in DOMAIN t.cols :
        j # k /\ t.cols[j].name = t.cols[k].name /\ t.cols[j].name \notin metadata_cols

(* The columns kept (not dropped), each imputed if it has an absent value. *)
impute_kept(kept, nrows) ==
    [j \in DOMAIN kept |->
        IF kept[j].name \notin metadata_cols /\ MissingOver0(kept[j], nrows)
        THEN impute(kept[j]) ELSE kept[j]]

(* The positions of the columns that are not dropped. *)
KeptCols(t) ==
    SelectIdx(Len(t.cols),
              [j \in DOMAIN t.cols |->
                  t.cols[j].name \in metadata_cols
                      \/ ~MissingOver90(t.cols[j], NRows(t))], 1)

(* _handle_missing_values: [raised, table] *)
handle_missing_values(t) ==
    IF AmbiguousLabel(t) THEN [raised |-> TRUE, table |-> t]
    ELSE [raised |-> FALSE,
          table |-> Table(t.index, impute_kept(Pick(t.cols, KeptCols(t)), NRows(t)))]

(* astype(str) of one cell of an object column. *)
astype_str(c) == IF isna(c) THEN NanText ELSE c.s

(* series.replace(old, new) of one value *)
replace_value(a, old, new) == IF a = old THEN new ELSE a

(* The same without the strip. *)
clean_text_unstripped(c) ==
    Str(str_lower(replace_value(replace_value(astype_str(c), <<>>, Unknown),
                                NanText, Unknown)))

(* The text cleaning of one cell: strip, '' and 'nan' to 'unknown', lower. *)
clean_text(c) ==
    Str(str_lower(replace_value(replace_value(str_strip(astype_str(c)), <<>>, Unknown),
                                NanText, Unknown)))

(* _clean_text_fields *)
clean_text_fields(t) ==
    Table(t.index,
          [j \in DOMAIN t.cols |->
              IF t.cols[j].dtype = "object" /\ t.cols[j].name \notin metadata_cols
              THEN Column(t.cols[j].name, "object",
                          [i \in DOMAIN t.cols[j].vals |-> clean_text(t.cols[j].vals[i])])
              ELSE t.cols[j]])

(* pd.to_datetime of one cell: the timestamp a complete date-time text     *)
(* denotes, the time of the call for the text 'now', NaT for an absent      *)
(* value; anything else does not parse.                                     *)
ParsesAsDatetime(c) == isna(c) \/ c.s = NowText \/ (Len(c.s) = 1 /\ IsIsoChar(c.s[1]))
to_datetime_cell(c, now) ==
    IF isna(c) THEN Null ELSE IF c.s = NowText THEN Ts(now) ELSE Ts(IsoTime(c.s[1]))

(* pd.to_numeric(errors='coerce') of one cell: the number a digit string    *)
(* denotes, NaN for anything else.                                          *)
to_numeric_cell(c) ==
    IF notna(c) /\ c.s # <<>> /\ \A i \in DOMAIN c.s : IsDigitChar(c.s[i])
    THEN NumInt(DigitsValue(c.s)) ELSE Null

(* The column replaced by its numeric reading numeric_col, of which ok      *)
(* values are present, if not all are absent and                            *)
(* numeric_col.notna().sum() / len(df) > 0.5.                               *)
keep_numeric(col, numeric_col, ok, nrows) ==
    IF ok > 0 /\ 2 * ok > nrows
    THEN Column(col.name, IF ok = nrows THEN "int64" ELSE "float64", numeric_col)
    ELSE col

to_numeric(vals) == [i \in DOMAIN vals |-> to_numeric_cell(vals[i])]

(* The coercion of one object column of a table of nrows rows, at time now. *)
standardize_column(col, nrows, now) ==
    IF \A i \in DOMAIN col.vals : ParsesAsDatetime(col.vals[i])
    THEN Column(col.name, "datetime64[ns]",
                [i \in DOMAIN col.vals |-> to_datetime_cell(col.vals[i], now)])
    ELSE keep_numeric(col, to_numeric(col.vals), Len(dropna(to_numeric(col.vals))), nrows)

(* _standardize_data_types, pd.to_datetime reading the clock at now *)
standardize_data_types(t, now) ==
    Table(t.index,
          [j \in DOMAIN t.cols |->
              IF t.cols[j].dtype = "object" /\ t.cols[j].name \notin metadata_cols
              THEN standardize_column(t.cols[j], NRows(t), now)
              ELSE t.cols[j]])

(* series.quantile(k/4): linear interpolation between the order statistics  *)
(* of the present values (at least one).                                    *)
(* The value at 0-based position lo + fr/4 of the sorted sequence s. *)
interpolate(s, lo, fr) ==
    IF fr = 0 THEN s[lo + 1]
    ELSE RAdd(s[lo + 1], RMul(Rat(fr, 4), RSub(s[lo + 2], s[lo + 1])))

quantile_sorted(s, k) == interpolate(s, ((Len(s) - 1) * k) \div 4, ((Len(s) - 1) * k) % 4)

quantile(vals, k) == quantile_sorted(SortRat(Present(vals)), k)

(* [lower, upper] == [Q1 - m*IQR, Q3 + m*IQR] for the multiplier m = m2/2. *)
bounds_of(Q1, Q3, m2) ==
    [lower |-> RSub(Q1, RMul(Rat(m2, 2), RSub(Q3, Q1))),
     upper |-> RAdd(Q3, RMul(Rat(m2, 2), RSub(Q3, Q1)))]

quartile_bounds(s, m2) == bounds_of(quantile_sorted(s, 1), quantile_sorted(s, 3), m2)

iqr_bounds(vals, m2) == quartile_bounds(SortRat(Present(vals)), m2)

IsOutlier(c, b) == notna(c) /\ (RLt(RatOf(c), b.lower) \/ RLt(b.upper, RatOf(c)))
InBounds(c, b) == notna(c) /\ RLe(b.lower, RatOf(c)) /\ RLe(RatOf(c), b.upper)

(* series.clip(lower, upper) of one cell. *)
clip(c, b) ==
    IF isna(c) THEN c
    ELSE IF RLt(RatOf(c), b.lower) THEN Num(b.lower)
    ELSE IF RLt(b.upper, RatOf(c)) THEN Num(b.upper)
    ELSE c

(* outlier_pct <= 5 *)
OutlierPctAtMost5(nout, nrows) == nout * 100 <= 5 * nrows

(* outlier_pct < 5 for outlier_pct = len(outliers) / len(df) * 100 *)
OutlierPctUnder5(nout, nrows) == nout * 100 < 5 * nrows

(* len(df[(df[col] < lower_bound) | (df[col] > upper_bound)]) *)
OutlierCount(vals, b) == Cardinality({i \in DOMAIN vals : IsOutlier(vals[i], b)})

(* df[(df[col] >= lower_bound) & (df[col] <= upper_bound)] *)
remove_outliers(t, j, b) ==
    TakeRows(t, SelectIdx(NRows(t),
                          [i \in 1..NRows(t) |-> InBounds(t.cols[j].vals[i], b)], 1))

(* df[col] = df[col].clip(lower=lower_bound, upper=upper_bound) *)
clip_column(t, j, b) ==
    Table(t.index,
          [k \in DOMAIN t.cols |->
              IF k = j
              THEN Column(t.cols[j].name, "float64",
                          [i \in DOMAIN t.cols[j].vals |-> clip(t.cols[j].vals[i], b)])
              ELSE t.cols[k]])

(* What is done about the nout outliers of column j, the bounds being b. *)
treat_outliers(t, j, b, nout) ==
    IF nout = 0 THEN t
    ELSE IF OutlierPctUnder5(nout, NRows(t)) THEN remove_outliers(t, j, b)
    ELSE clip_column(t, j, b)

bounded_outliers(t, j, b) == treat_outliers(t, j, b, OutlierCount(t.cols[j].vals, b))

(* The outlier handling with the quartiles, the bounds and the percentage   *)
(* of every column taken from the table t0 the stage started with.          *)
RECURSIVE handle_outliers_once_from(_, _, _)
handle_outliers_once_from(t0, cur, j) ==
    IF j > Len(t0.cols) THEN cur
    ELSE IF /\ IsNumericDtype(t0.cols[j].dtype)
            /\ t0.cols[j].name \notin {IngestedAt, DataSource}
            /\ dropna(t0.cols[j].vals) # <<>>
            /\ OutlierCount(t0.cols[j].vals, iqr_bounds(t0.cols[j].vals, 3)) > 0
         THEN handle_outliers_once_from(t0,
                  IF OutlierPctUnder5(OutlierCount(t0.cols[j].vals,
                                                   iqr_bounds(t0.cols[j].vals, 3)),
                                      NRows(t0))
                  THEN remove_outliers(cur, j, iqr_bounds(t0.cols[j].vals, 3))
                  ELSE clip_column(cur, j, iqr_bounds(t0.cols[j].vals, 3)),
                  j + 1)
         ELSE handle_outliers_once_from(t0, cur, j + 1)

handle_outliers_once(t) == handle_outliers_once_from(t, t, 1)

(* One turn of the loop of _handle_outliers: the numeric column at          *)
(* position j of the table as it is now.  (The quantiles of a column        *)
(* with no present value are NaN, and nothing is outside NaN bounds.)       *)
handle_outliers_col(t, j) ==
    IF dropna(t.cols[j].vals) = <<>> THEN t
    ELSE bounded_outliers(t, j, iqr_bounds(t.cols[j].vals, 3))

RECURSIVE handle_outliers_from(_, _)
handle_outliers_from(t, j) ==
    IF j > Len(t.cols) THEN t
    ELSE IF IsNumericDtype(t.cols[j].dtype) /\ t.cols[j].name \notin metadata_cols
         THEN handle_outliers_from(handle_outliers_col(t, j), j + 1)
         ELSE handle_outliers_from(t, j + 1)

(* _handle_outliers *)
handle_outliers(t) == handle_outliers_from(t, 1)

(* df[name] = vals: the column is replaced where it stands, or appended. *)
SetColumn(t, col) ==
    IF col.name \in ColumnSet(t)
    THEN Table(t.index,
            [j \in DOMAIN t.cols |-> IF t.cols[j].name = col.name THEN col ELSE t.cols[j]])
    ELSE Table(t.index, Append(t.cols, col))

(* The percentage of present values of row i, not rounded. *)
row_completeness_exact(t, data_cols, i) ==
    Rat(100 * Cardinality({k \in DOMAIN data_cols :
                              notna(t.cols[data_cols[k]].vals[i])}),
        Len(data_cols))

(* cleaned_df[data_cols].notna().sum(axis=1) / len(data_cols) * 100,        *)
(* rounded to 2 decimals, of row i                                          *)
row_completeness(t, data_cols, i) ==
    Round2(Rat(100 * Cardinality({k \in DOMAIN data_cols :
                                    notna(t.cols[data_cols[k]].vals[i])}),
               Len(data_cols)))

add_completeness_score(t, data_cols) ==
    IF data_cols # <<>>
    THEN SetColumn(t, Column(CompletenessScore, "float64",
                             [i \in 1..NRows(t) |-> Num(row_completeness(t, data_cols, i))]))
    ELSE t

(* The timestamp written to 'ingested_at' instead of 'cleaned_at'. *)
stamp_ingested_at(t, now) ==
    SetColumn(t, Column(IngestedAt, "object", [i \in 1..NRows(t) |-> Str(IsoText(now))]))

(* cleaned_df['cleaned_at'] = datetime.now().isoformat() *)
add_cleaned_at(t, now) ==
    SetColumn(t, Column(CleanedAt, "object", [i \in 1..NRows(t) |-> Str(IsoText(now))]))

score_rows(stamped) ==
    add_completeness_score(stamped, ColsNotIn(stamped, metadata_cols \cup {CleanedAt}))

(* The indicators computed as they are, the timestamp written into the      *)
(* original table as well.                                                  *)
add_quality_indicators_in_place(cleaned, original, now) ==
    [cleaned |-> score_rows(add_cleaned_at(cleaned, now)),
     original |-> add_cleaned_at(original, now)]

(* _add_quality_indicators(cleaned_df, original_df) at wall-clock time now: *)
(* what it leaves in each of its two arguments.                             *)
add_quality_indicators(cleaned, original, now) ==
    [cleaned |-> score_rows(add_cleaned_at(cleaned, now)), original |-> original]

(* df.copy() *)
copy(t) == t

(* The stages of clean_data after _handle_missing_values returned or raised *)
(* r: [raised, table], pd.to_datetime reading the clock at now and          *)
(* _add_quality_indicators at later.                                        *)
clean_imputed(r, original, now, later) ==
    IF r.raised THEN [raised |-> TRUE, table |-> EmptyTable]
    ELSE [raised |-> FALSE,
          table |-> add_quality_indicators(
                        handle_outliers(
                            standardize_data_types(clean_text_fields(r.table), now)),
                        original, later).cleaned]

(* clean_data(df): [raised, table], the table returned unless it raised. *)
clean_data(t, now, later) ==
    clean_imputed(
        handle_missing_values(clean_column_names(remove_duplicates(copy(t)))),
        t, now, later)

-----------------------------------------------------------------------------
(* QualityChecker (src/data-clean/quality_checker.py). *)

quality_thresholds ==
    [completeness |-> 80, uniqueness |-> 95, consistency |-> 90, validity |-> 85]

Y1900 == -5    \* pd.Timestamp('1900-01-01') on the model's time axis

(* k of n in thousandths. *)
PerMille(k, n) == Rat(1000 * k, n)

(* (k / n) * 100 *)
Pct(k, n) == Rat(100 * k, n)
AtLeast(x, k) == x.n >= k * x.d

DataCols(t) == ColsNotIn(t, metadata_cols)
NotNullCount(vals) == Len(dropna(vals))
(* series.nunique(): distinct present values. *)
nunique(vals) == Cardinality(Range(dropna(vals)))

NoDataColumns == [score |-> RInt(100), details |-> "No data columns to assess"]

(* The present cells of the columns data_cols. *)
NonNullCells(t, data_cols) ==
    Cardinality({c \in (DOMAIN data_cols) \X (1..NRows(t)) :
                    notna(t.cols[data_cols[c[1]]].vals[c[2]])})

(* (non_null / len(df)) * 100 if len(df) > 0 else 0, rounded *)
completeness_percentage(vals, nrows) ==
    IF nrows > 0 THEN Round2(Pct(NotNullCount(vals), nrows)) ELSE RInt(0)

completeness_report(t, data_cols, overall_completeness) ==
    [score |-> Round2(overall_completeness),
     by_column |->
        [k \in DOMAIN data_cols |->
            [column |-> t.cols[data_cols[k]].name,
             non_null_count |-> NotNullCount(t.cols[data_cols[k]].vals),
             total_count |-> NRows(t),
             completeness_percentage |->
                completeness_percentage(t.cols[data_cols[k]].vals, NRows(t))]],
     threshold_met |-> AtLeast(overall_completeness, quality_thresholds.completeness)]

(* (non_null_cells / total_cells) * 100 if total_cells > 0 else 0 *)
overall_completeness(non_null_cells, total_cells) ==
    IF total_cells > 0 THEN Pct(non_null_cells, total_cells) ELSE RInt(0)

completeness_of(t, data_cols) ==
    IF data_cols = <<>> THEN NoDataColumns
    ELSE completeness_report(t, data_cols,
            overall_completeness(NonNullCells(t, data_cols), NRows(t) * Len(data_cols)))

(* _assess_completeness *)
assess_completeness(t) == completeness_of(t, DataCols(t))

(* df.duplicated(subset=js, keep=False).sum(): the rows with another row     *)
(* equal on js.                                                             *)
duplicated_count_keep_none(t, js) ==
    Cardinality({i \in 1..NRows(t) :
                    \E k \in 1..NRows(t) : k # i /\ RowKey(t, js, k) = RowKey(t, js, i)})

(* df.duplicated(subset=js).sum(): the rows with an earlier row equal on js. *)
duplicated_count(t, js) ==
    Cardinality({i \in 1..NRows(t) :
                    \E k \in 1..(i - 1) : RowKey(t, js, k) = RowKey(t, js, i)})

(* (unique_values / total_values) * 100 if total_values > 0 else 0, rounded *)
col_uniqueness(vals) ==
    IF NotNullCount(vals) > 0 THEN Round2(Pct(nunique(vals), NotNullCount(vals)))
    ELSE RInt(0)

(* ((len(df) - duplicate_count) / len(df)) * 100 if len(df) > 0 else 100 *)
uniqueness_percentage(nrows, duplicate_count) ==
    IF nrows > 0 THEN Pct(nrows - duplicate_count, nrows) ELSE RInt(100)

uniqueness_report(t, data_cols, duplicate_count, pct) ==
    [score |-> Round2(pct),
     duplicate_rows |-> duplicate_count,
     by_column |->
        [k \in DOMAIN data_cols |->
            [column |-> t.cols[data_cols[k]].name,
             unique_values |-> nunique(t.cols[data_cols[k]].vals),
             total_values |-> NotNullCount(t.cols[data_cols[k]].vals),
             uniqueness_percentage |-> col_uniqueness(t.cols[data_cols[k]].vals)]],
     threshold_met |-> AtLeast(pct, quality_thresholds.uniqueness)]

uniqueness_counted(t, data_cols, duplicate_count) ==
    uniqueness_report(t, data_cols, duplicate_count,
                      uniqueness_percentage(NRows(t), duplicate_count))

uniqueness_of(t, data_cols) ==
    IF data_cols = <<>> THEN NoDataColumns
    ELSE uniqueness_counted(t, data_cols, duplicated_count(t, data_cols))

(* _assess_uniqueness *)
assess_uniqueness(t) == uniqueness_of(t, DataCols(t))

Max0(x) == IF x < 0 THEN 0 ELSE x

Issue(flag, text, count) ==
    IF flag THEN <<[issue |-> text, count |-> count]>> ELSE <<>>

text_report(casing, whitespace_count, empty_count) ==
    [score |-> Max0(100 - (IF casing THEN 20 ELSE 0)
                        - (IF whitespace_count > 0 THEN 10 ELSE 0)
                        - (IF empty_count > 0 THEN 15 ELSE 0)),
     issues |->
        Issue(casing, "Inconsistent text casing", 0)
        \o Issue(whitespace_count > 0, "values with leading/trailing whitespace",
                 whitespace_count)
        \o Issue(empty_count > 0, "empty strings", empty_count)]

(* mixed_count >= len(text_values) * 0.3 *)
MixedCaseAtLeast(n, lower_count, upper_count) ==
    (n - lower_count - upper_count) * 10 >= n * 3

(* mixed_count > len(text_values) * 0.3 *)
MixedCase(n, lower_count, upper_count) == (n - lower_count - upper_count) * 10 > n * 3

text_consistency_of(text_values) ==
    text_report(
        MixedCase(Len(text_values),
                  Cardinality({i \in DOMAIN text_values : str_islower(text_values[i])}),
                  Cardinality({i \in DOMAIN text_values : str_isupper(text_values[i])})),
        Cardinality({i \in DOMAIN text_values :
                        text_values[i] # str_strip(text_values[i])}),
        Cardinality({i \in DOMAIN text_values : text_values[i] = <<>>}))

(* series.dropna().astype(str) *)
TextValues(vals) == [i \in DOMAIN dropna(vals) |-> astype_str(dropna(vals)[i])]

(* _check_text_consistency *)
check_text_consistency(vals) ==
    IF dropna(vals) = <<>> THEN [score |-> 100, issues |-> <<>>]
    ELSE text_consistency_of(TextValues(vals))

(* extreme_outliers > len(series) * 0.05 *)
TooManyExtreme(extreme_outliers, n) == extreme_outliers * 20 > n

numeric_report(extreme_outliers, n) ==
    [score |-> Max0(100 - (IF TooManyExtreme(extreme_outliers, n) THEN 25 ELSE 0)),
     issues |-> Issue(TooManyExtreme(extreme_outliers, n), "extreme outliers detected",
                      extreme_outliers)]

(* _check_numeric_consistency *)
check_numeric_consistency(vals) ==
    IF dropna(vals) = <<>> THEN [score |-> 100, issues |-> <<>>]
    ELSE numeric_report(OutlierCount(vals, iqr_bounds(vals, 6)), Len(vals))

datetime_report(future_dates, very_old_dates) ==
    [score |-> Max0(100 - (IF future_dates > 0 THEN 20 ELSE 0)
                        - (IF very_old_dates > 0 THEN 15 ELSE 0)),
     issues |-> Issue(future_dates > 0, "future dates detected", future_dates)
                \o Issue(very_old_dates > 0, "dates before 1900", very_old_dates)]

(* _check_datetime_consistency, pd.Timestamp.now() being now *)
check_datetime_consistency(vals, now) ==
    IF dropna(vals) = <<>> THEN [score |-> 100, issues |-> <<>>]
    ELSE datetime_report(
            Cardinality({i \in DOMAIN vals : notna(vals[i]) /\ vals[i].n > now}),
            Cardinality({i \in DOMAIN vals : notna(vals[i]) /\ vals[i].n < Y1900}))

(* The consistency check of one column, by its dtype. *)
check_consistency(col, now) ==
    IF col.dtype = "object" THEN check_text_consistency(col.vals)
    ELSE IF IsNumericDtype(col.dtype) THEN check_numeric_consistency(col.vals)
    ELSE IF col.dtype = "datetime64[ns]" THEN check_datetime_consistency(col.vals, now)
    ELSE [score |-> 100, issues |-> <<>>]

RECURSIVE SumSeq(_)
SumSeq(s) == IF s = <<>> THEN 0 ELSE Head(s) + SumSeq(Tail(s))

(* total_score / columns_assessed if columns_assessed > 0 else 100 *)
mean_score(total_score, columns_assessed) ==
    IF columns_assessed > 0 THEN Rat(total_score, columns_assessed) ELSE RInt(100)

consistency_report(t, data_cols, consistency_scores, overall_consistency) ==
    [score |-> Round2(overall_consistency),
     by_column |->
        [k \in DOMAIN data_cols |->
            [column |-> t.cols[data_cols[k]].name,
             score |-> consistency_scores[k].score,
             issues |-> consistency_scores[k].issues]],
     threshold_met |-> AtLeast(overall_consistency, quality_thresholds.consistency)]

consistency_scored(t, data_cols, consistency_scores) ==
    consistency_report(t, data_cols, consistency_scores,
        mean_score(SumSeq([k \in DOMAIN data_cols |-> consistency_scores[k].score]),
                   Len(data_cols)))

consistency_of(t, data_cols, now) ==
    consistency_scored(t, data_cols,
        [k \in DOMAIN data_cols |-> check_consistency(t.cols[data_cols[k]], now)])

(* _assess_consistency *)
assess_consistency(t, now) == consistency_of(t, DataCols(t), now)

(* (valid_count / total_count) * 100 if total_count > 0 else 100 *)
validity_percentage(valid_count, total_count) ==
    IF total_count > 0 THEN Pct(valid_count, total_count) ELSE RInt(100)

validity_report(t, data_cols, overall_validity) ==
    [score |-> Round2(overall_validity),
     by_column |->
        [k \in DOMAIN data_cols |->
            [column |-> t.cols[data_cols[k]].name,
             valid_count |-> NotNullCount(t.cols[data_cols[k]].vals),
             total_count |-> NRows(t),
             validity_percentage |->
                Round2(validity_percentage(NotNullCount(t.cols[data_cols[k]].vals),
                                           NRows(t)))]],
     threshold_met |-> AtLeast(overall_validity, quality_thresholds.validity)]

RECURSIVE SumRat(_)
SumRat(s) == IF s = <<>> THEN RInt(0) ELSE RAdd(Head(s), SumRat(Tail(s)))

(* total_score / columns_assessed if columns_assessed > 0 else 100 *)
overall_validity(total_score, columns_assessed) ==
    IF columns_assessed > 0 THEN RDiv(total_score, RInt(columns_assessed)) ELSE RInt(100)

validity_of(t, data_cols) ==
    validity_report(t, data_cols,
        overall_validity(
            SumRat([k \in DOMAIN data_cols |->
                      validity_percentage(NotNullCount(t.cols[data_cols[k]].vals),
                                          NRows(t))]),
            Len(data_cols)))

(* _assess_validity *)
assess_validity(t) == validity_of(t, DataCols(t))

(* series.min() and series.max() of a sequence of fractions in lowest terms. *)
MinRat(s) == CHOOSE x \in Range(s) : \A y \in Range(s) : RLe(x, y)
MaxRat(s) == CHOOSE x \in Range(s) : \A y \in Range(s) : RLe(y, x)

NoValue == [n |-> 0, d |-> 0]    \* None

(* len(str(v)) of every value of the column *)
Lengths(vals) == [i \in DOMAIN vals |-> RInt(Len(astype_str(vals[i])))]

(* The profile of one column.  std_deviation and avg_length are left out:   *)
(* a standard deviation is no fraction, and no property below reads them.   *)
profile_of(col, numeric, text) ==
    [column |-> col.name,
     data_type |-> col.dtype,
     non_null_count |-> NotNullCount(col.vals),
     null_count |-> NullCount(col.vals),
     unique_count |-> nunique(col.vals),
     min_value |-> IF numeric THEN MinRat(Present(col.vals)) ELSE NoValue,
     max_value |-> IF numeric THEN MaxRat(Present(col.vals)) ELSE NoValue,
     mean_value |->
        IF numeric THEN RDiv(SumRat(Present(col.vals)), RInt(NotNullCount(col.vals)))
        ELSE NoValue,
     min_length |-> IF text THEN MinRat(Lengths(col.vals)) ELSE NoValue,
     max_length |-> IF text THEN MaxRat(Lengths(col.vals)) ELSE NoValue]

profile_column(col) ==
    profile_of(col, IsNumericDtype(col.dtype) /\ dropna(col.vals) # <<>>,
               col.dtype = "object" /\ dropna(col.vals) # <<>>)

profile_data_cols(t, data_cols) ==
    [k \in DOMAIN data_cols |-> profile_column(t.cols[data_cols[k]])]

(* _profile_columns *)
profile_columns(t) == profile_data_cols(t, DataCols(t))

Dimensions == <<"completeness", "uniqueness", "consistency", "validity">>

(* _calculate_overall_score *)
calculate_overall_score(r) ==
    RDiv(SumRat([k \in DOMAIN Dimensions |-> r[Dimensions[k]].score]),
         RInt(Len(Dimensions)))

(* report[dim]['threshold_met'] raises KeyError when the key is absent. *)
HasThresholdMet(r, dim) == "threshold_met" \in DOMAIN r[dim]

RecommendationText(dim) ==
    CASE dim = "completeness" -> "Improve data completeness"
      [] dim = "uniqueness" -> "Address duplicate records"
      [] dim = "consistency" -> "Improve data consistency"
      [] dim = "validity" -> "Improve data validity"

AllMet == [text |-> "Data quality meets all thresholds",
           current |-> RInt(0), target |-> 0]

Recommendation(r, dim) ==
    IF ~r[dim].threshold_met
    THEN <<[text |-> RecommendationText(dim),
            current |-> r[dim].score,
            target |-> quality_thresholds[dim]]>>
    ELSE <<>>

(* The 'all met' entry appended whatever was recommended. *)
AllMetAppended(recommendations) == Append(recommendations, AllMet)

AllMetIfNone(recommendations) ==
    IF recommendations = <<>> THEN <<AllMet>> ELSE recommendations

(* _generate_recommendations, for a report whose four sub-reports all       *)
(* carry 'threshold_met'.                                                   *)
generate_recommendations(r) ==
    AllMetIfNone(Recommendation(r, "completeness") \o Recommendation(r, "uniqueness")
                 \o Recommendation(r, "consistency") \o Recommendation(r, "validity"))

Raised(error) == [kind |-> "raised", error |-> error]
NoReport == [kind |-> "none"]

(* The report built of the four sub-reports r, or the KeyError that         *)
(* _generate_recommendations raises on a sub-report without 'threshold_met'. *)
finish_report(t, now, r) ==
    IF \E k \in DOMAIN Dimensions : ~HasThresholdMet(r, Dimensions[k])
    THEN Raised("KeyError")
    ELSE [kind |-> "report",
          assessment_timestamp |-> IsoText(now),
          total_rows |-> NRows(t),
          total_columns |-> Len(t.cols),
          completeness |-> r.completeness,
          uniqueness |-> r.uniqueness,
          consistency |-> r.consistency,
          validity |-> r.validity,
          column_profiles |-> profile_columns(t),
          overall_score |-> calculate_overall_score(r),
          recommendations |-> generate_recommendations(r)]

(* assess_data_quality(df): datetime.now() gives now, and pd.Timestamp.now() *)
(* in the datetime check gives later.  The result is the report, or the      *)
(* exception that left the call.                                             *)
assess_data_quality(t, now, later) ==
    finish_report(t, now,
        [completeness |-> assess_completeness(t),
         uniqueness |-> assess_uniqueness(t),
         consistency |-> assess_consistency(t, later),
         validity |-> assess_validity(t)])

-----------------------------------------------------------------------------
(* DataCleanService._generate_cleaning_summary (src/data-clean/main.py). *)

(* len(cleaned_df) - len(original_df) *)
rows_added(original_df, cleaned) == NRows(cleaned) - NRows(original_df)

(* 'rows_removed': len(original_df) - len(cleaned_df) *)
rows_removed(original_df, cleaned) == NRows(original_df) - NRows(cleaned)

-----------------------------------------------------------------------------
(* The tables a caller may hand to the engine. *)

RowLabels(n) == [i \in 1..n |-> i - 1]

ObjectCells ==
    {Null, Str(<<97>>), Str(<<32, 65>>), Str(<<>>), Str(<<78, 97, 78>>), Str(<<49>>)}
      \* None   'a'        ' A'             ''        'NaN'                 '1'
FloatCells == {Null, NumInt(1), NumInt(2)}
IntCells == {NumInt(1), NumInt(2)}
DatetimeCells == {Null, Ts(Y1900 - 1), Ts(1)}

(* The columns of n rows named name. *)
ColumnsOf(name, n) ==
    {Column(name, "object", v) : v \in [1..n -> ObjectCells]}
    \cup {Column(name, "float64", v) : v \in [1..n -> FloatCells]}
    \cup {Column(name, "int64", v) : v \in [1..n -> IntCells]}
    \cup {Column(name, "datetime64[ns]", v) : v \in [1..n -> DatetimeCells]}

FloatColumnsOf(name, n) == {Column(name, "float64", v) : v \in [1..n -> FloatCells]}

(* The two metadata columns of n rows: a different 'ingested_at' on every   *)
(* row, one 'data_source'.                                                  *)
MetadataColumns(n) ==
    <<Column(IngestedAt, "object", [i \in 1..n |-> Str(IsoText(i))]),
      Column(DataSource, "object", [i \in 1..n |-> Str(<<115>>)])>>

(* DataProcessor appends the metadata columns after the data columns. *)
WithOrWithoutMetadata(n, cols) ==
    {Table(RowLabels(n), cols), Table(RowLabels(n), cols \o MetadataColumns(n))}

ValueNames == {<<97>>, <<67, 111, 108, 32, 65>>}     \* 'a', 'Col A'

OneColumnTables ==
    UNION {UNION {UNION {WithOrWithoutMetadata(n, <<c>>) : c \in ColumnsOf(name, n)} :
                    name \in ValueNames} :
             n \in 0..MaxRows}

TwoColumnTables ==
    UNION {UNION {WithOrWithoutMetadata(n, <<c, e>>) :
                    c \in ColumnsOf(<<97>>, n), e \in FloatColumnsOf(<<98>>, n)} :
             n \in 1..MaxPairRows}

ColumnNames ==
    {<<97>>,                     \* 'a'
     <<65>>,                     \* 'A'
     <<32, 97, 32, 98>>,         \* ' a b'
     <<97, 45, 46, 98>>,         \* 'a-.b'
     <<97, 95, 95, 95, 98>>,     \* 'a___b'
     <<49, 97>>,                 \* '1a'
     <<36>>,                     \* '$'
     <<73, 110, 103, 101, 115, 116, 101, 100, 95, 65, 116>>}   \* 'Ingested_At'

RECURSIVE DistinctSeqs(_, _)
(* The sequences of k different elements of S. *)
DistinctSeqs(S, k) ==
    IF k = 0 THEN {<<>>}
    ELSE {Append(q, x) : q \in DistinctSeqs(S, k - 1), x \in S} \ 
         {q \in {Append(q, x) : q \in DistinctSeqs(S, k - 1), x \in S} :
            \E i, j \in DOMAIN q : i # j /\ q[i] = q[j]}

(* One-row tables over the column names, every value 1. *)
NamedTables ==
    UNION {UNION {WithOrWithoutMetadata(1,
                     [j \in 1..k |-> Column(names[j], "int64", <<NumInt(1)>>)]) :
                    names \in DistinctSeqs(ColumnNames, k)} :
             k \in 0..MaxNameCols}

(* Tables of metadata columns only, rows with equal metadata among them. *)
MetadataOnlyTables ==
    UNION {{Table(RowLabels(n),
                  <<Column(IngestedAt, "object", v),
                    Column(DataSource, "object", [i \in 1..n |-> Str(<<115>>)])>>) :
              v \in [1..n -> {Str(IsoText(1)), Str(IsoText(2))}]} :
             n \in 0..MaxRows}

(* The ramp 1, 2, ..., n of numbers (dtype int64/float64) or of their       *)
(* decimal texts (dtype object), its last value possibly far away and the   *)
(* one before possibly absent.                                              *)
RampColumn(n, dtype, gap, far) ==
    LET num(i) == IF i = n - 1 /\ gap THEN Null
                  ELSE IF i = n /\ far THEN NumInt(Far) ELSE NumInt(i)
        cell(i) == IF dtype = "object" /\ notna(num(i)) THEN Str(DigitsOf(num(i).n))
                   ELSE num(i)
    IN  Column(<<120>>, IF dtype = "object" THEN dtype
                        ELSE IF gap THEN "float64" ELSE "int64",
               [i \in 1..n |-> cell(i)])

RampTables ==
    UNION {WithOrWithoutMetadata(n, <<RampColumn(n, dtype, gap, far)>>) :
             n \in {ShortRamp, MaxRamp - 1, MaxRamp},
             dtype \in {"object", "number"}, gap \in BOOLEAN, far \in BOOLEAN}

NowCells == {Str(NowText), Str(<<32, 78, 111, 119>>), Str(<<97>>)}   \* 'now', ' Now', 'a'

(* Tables of one text column that may name the time of reading. *)
NowTables ==
    UNION {UNION {WithOrWithoutMetadata(n, <<Column(<<97>>, "object", v)>>) :
                    v \in [1..n -> NowCells]} :
             n \in 1..MaxRows}

(* Three rows, the second or the third like the first but for metadata and  *)
(* for the case and the blanks of a text: 1, 1, 2 and 1, 2, 1 and           *)
(* 'a', 'a', ' A' and 'a', ' A', 'a'.                                       *)
RepeatedValues ==
    {<<NumInt(1), NumInt(1), NumInt(2)>>,
     <<NumInt(1), NumInt(2), NumInt(1)>>,
     <<Str(<<97>>), Str(<<97>>), Str(<<32, 65>>)>>,
     <<Str(<<97>>), Str(<<32, 65>>), Str(<<97>>)>>}

RepeatedRowTables ==
    UNION {WithOrWithoutMetadata(3,
              <<Column(<<120>>, IF v[1].t = "num" THEN "int64" ELSE "object", v)>>) :
             v \in RepeatedValues}

(* A column of n rows named 'x' whose first k values are absent; the       *)
(* others are the row number (float64), the text 'a' (object) or one of two *)
(* timestamps (datetime64[ns]).                                             *)
SparseColumn(n, k, dtype) ==
    Column(<<120>>, dtype,
           [i \in 1..n |->
               IF i <= k THEN Null
               ELSE IF dtype = "float64" THEN NumInt(i)
               ELSE IF dtype = "object" THEN Str(<<97>>)
               ELSE Ts(i % 2)])

(* The key column 'k' of n rows: 1, 2, ..., n, no two rows alike. *)
KeyColumn(n) == Column(<<107>>, "int64", [i \in 1..n |-> NumInt(i)])

SparseRows == {MaxSparse - 11, MaxSparse - 10, MaxSparse - 1, MaxSparse}

(* Tables of a sparse column and a key column: no, all but two or all but   *)
(* one value of the sparse column absent.                                   *)
SparseTables ==
    UNION {UNION {WithOrWithoutMetadata(n, <<SparseColumn(n, k, dtype), KeyColumn(n)>>) :
                    k \in {0, n - 2, n - 1},
                    dtype \in {"float64", "object", "datetime64[ns]"}} :
             n \in SparseRows}

(* The text column ' Cat ', 'cat', '', None. *)
ScenarioD == <<Str(<<32, 67, 97, 116, 32>>), Str(<<99, 97, 116>>), Str(<<>>), Null>>

TextScenarioTables == WithOrWithoutMetadata(4, <<Column(<<120>>, "object", ScenarioD)>>)

(* A lowercase text of three letters, another for every i < 2600. *)
LetterText(i) == <<97 + (i \div 100), 97 + ((i \div 10) % 10), 97 + (i % 10)>>

(* A text column of LargeRows rows: different texts, then LargeDuplicates   *)
(* rows that repeat the first.                                              *)
LargeTables ==
    WithOrWithoutMetadata(LargeRows,
        <<Column(<<120>>, "object",
                 [i \in 1..LargeRows |->
                     Str(LetterText(IF i <= LargeRows - LargeDuplicates THEN i ELSE 1))])>>)

(* A text column of CaseRows rows: the first k values are odd ('Ab' or      *)
(* '1'), the others plain ('a' or 'A'), but the last, which is plain, has a *)
(* leading blank (' a'), is empty or is absent.                             *)
CaseColumn(k, odd, plain, last) ==
    Column(<<120>>, "object",
           [i \in 1..CaseRows |-> IF i = CaseRows THEN last
                                  ELSE IF i <= k THEN Str(odd) ELSE Str(plain)])

TextCaseTables ==
    UNION {WithOrWithoutMetadata(CaseRows, <<CaseColumn(k, odd, plain, last)>>) :
             k \in {0, (3 * CaseRows) \div 10 - 1, (3 * CaseRows) \div 10,
                    (3 * CaseRows) \div 10 + 1},
             odd \in {<<65, 98>>, <<49>>},
             plain \in {<<97>>, <<65>>},
             last \in {Str(<<97>>), Str(<<32, 97>>), Str(<<>>), Null}}

(* The ramp 1, ..., n - 2, Far, n - 1: its far value is in the row before   *)
(* the last.                                                                *)
LateRampColumn(n) ==
    Column(<<121>>, "int64",
           [i \in 1..n |-> IF i = n - 1 THEN NumInt(Far)
                           ELSE IF i = n THEN NumInt(n - 1) ELSE NumInt(i)])

(* Tables of two numeric columns: the first may have its far value in the   *)
(* last row, the second has one in the row before.                          *)
PairRampTables ==
    UNION {WithOrWithoutMetadata(MaxRamp,
               <<RampColumn(MaxRamp, "number", FALSE, far), LateRampColumn(MaxRamp)>>) :
             far \in BOOLEAN}

(* Three rows of the text column '1', '2', 'a' beside one or two columns    *)
(* of numbers: the text column is coerced to numbers, its 'a' to NaN.       *)
CoercedTables ==
    UNION {WithOrWithoutMetadata(3,
               <<Column(<<120>>, "object", <<Str(<<49>>), Str(<<50>>), Str(<<97>>)>>)>>
                   \o [j \in 1..m |->
                          Column(<<120 + j>>, "int64", [i \in 1..3 |-> NumInt(3 * j + i)])]) :
             m \in 1..2}

InputTables ==
    OneColumnTables \cup TwoColumnTables \cup NamedTables
        \cup MetadataOnlyTables \cup RampTables \cup NowTables \cup RepeatedRowTables
        \cup TextScenarioTables \cup PairRampTables \cup CoercedTables

-----------------------------------------------------------------------------
(* The Redis store and the services' state. *)

MaxFiles == 2     \* raw files in the shared directory / objects in the container
MaxWorkers == 2   \* DataCleanService instances on the same directory and store
MaxCycles == 2    \* cycles each service instance runs

Files == 1..MaxFiles
Workers == 1..MaxWorkers

Nil == [kind |-> "nil"]                     \* None
Text(s) == [kind |-> "text", text |-> s]    \* the string s
(* json.dumps(d): a JSON document, which is no plain status string. *)
json_dumps(d) == [kind |-> "json", doc |-> d]

EmptyStore == [k \in {} |-> Nil]

(* redis_client.get(key): None for a key never set *)
redis_get(store, key) == IF key \in DOMAIN store THEN store[key] ELSE Nil

(* redis_client.set(key, value) *)
redis_set(store, key, value) ==
    [k \in DOMAIN store \cup {key} |-> IF k = key THEN value ELSE store[k]]

Key(prefix, name) == <<prefix, name>>
NoName == 0

NoFilesShared == [raw |-> [f \in {} |-> EmptyTable], cleaned |-> {}, summaries |-> {}]

IdleWorker ==
    [pc |-> "idle", raw_files |-> <<>>, k |-> 1, cycles |-> 0,
     handled |-> {}, failed |-> {}, outcome |-> "none", steps |-> <<>>]

IdleIngest ==
    [pc |-> "idle", new_files |-> <<>>, k |-> 1, cycles |-> 0,
     last_sync_time |-> Nil, seen |-> [o \in {} |-> 0]]

(* No service is running: nothing in the directory, the store, the         *)
(* container.                                                               *)
NoService ==
    /\ shared = NoFilesShared
    /\ redis = EmptyStore
    /\ svc = [w \in Workers |-> IdleWorker]
    /\ allas = [o \in {} |-> Nil]
    /\ ingest = IdleIngest

-----------------------------------------------------------------------------
(* The state machine. *)

Init ==
    /\ input \in InputTables
    /\ df = input
    /\ cleaned_df = EmptyTable
    /\ pc = "ready"
    /\ clock = 0
    /\ report = NoReport
    /\ pass = 1
    /\ NoService

(* quality_checker.assess_data_quality(df) *)
Assess ==
    /\ pc = "ready"
    /\ \E now \in clock..MaxClock : \E later \in now..MaxClock :
          /\ report' = assess_data_quality(df, now, later)
          /\ clock' = later
    /\ pc' = "assessed"
    /\ UNCHANGED <<input, df, cleaned_df, pass>>
    /\ UNCHANGED service_vars

(* clean_data: cleaned_df = df.copy() *)
Copy ==
    /\ pc = "assessed"
    /\ cleaned_df' = copy(df)
    /\ pc' = "copied"
    /\ UNCHANGED <<input, df, clock, report, pass>>
    /\ UNCHANGED service_vars

RemoveDuplicates ==
    /\ pc = "copied"
    /\ cleaned_df' = remove_duplicates(cleaned_df)
    /\ pc' = "deduplicated"
    /\ UNCHANGED <<input, df, clock, report, pass>>
    /\ UNCHANGED service_vars

CleanColumnNames ==
    /\ pc = "deduplicated"
    /\ cleaned_df' = clean_column_names(cleaned_df)
    /\ pc' = "renamed"
    /\ UNCHANGED <<input, df, clock, report, pass>>
    /\ UNCHANGED service_vars

(* _handle_missing_values returns, or its ValueError leaves clean_data. *)
HandleMissingValues ==
    /\ pc = "renamed"
    /\ LET r == handle_missing_values(cleaned_df)
       IN  /\ cleaned_df' = r.table
           /\ pc' = IF r.raised THEN "raised" ELSE "imputed"
    /\ UNCHANGED <<input, df, clock, report, pass>>
    /\ UNCHANGED service_vars

CleanTextFields ==
    /\ pc = "imputed"
    /\ cleaned_df' = clean_text_fields(cleaned_df)
    /\ pc' = "text_cleaned"
    /\ UNCHANGED <<input, df, clock, report, pass>>
    /\ UNCHANGED service_vars

StandardizeDataTypes ==
    /\ pc = "text_cleaned"
    /\ \E now \in clock..MaxClock :
          /\ cleaned_df' = standardize_data_types(cleaned_df, now)
          /\ clock' = now
    /\ pc' = "typed"
    /\ UNCHANGED <<input, df, report, pass>>
    /\ UNCHANGED service_vars

(* The outlier stage called right after the column names are cleaned. *)
HandleOutliersBeforeMissingValues ==
    /\ pc = "renamed"
    /\ cleaned_df' = handle_outliers(cleaned_df)
    /\ pc' = "outliers_handled"
    /\ UNCHANGED <<input, df, clock, report, pass>>
    /\ UNCHANGED service_vars

HandleOutliers ==
    /\ pc = "typed"
    /\ cleaned_df' = handle_outliers(cleaned_df)
    /\ pc' = "outliers_handled"
    /\ UNCHANGED <<input, df, clock, report, pass>>
    /\ UNCHANGED service_vars

(* _add_quality_indicators(cleaned_df, df), then clean_data returns *)
AddQualityIndicators ==
    /\ pc = "outliers_handled"
    /\ \E now \in clock..MaxClock :
          LET r == add_quality_indicators(cleaned_df, df, now)
          IN  /\ cleaned_df' = r.cleaned
              /\ df' = r.original
              /\ clock' = now
    /\ pc' = "done"
    /\ UNCHANGED <<input, report, pass>>
    /\ UNCHANGED service_vars

(* The caller hands the cleaned table to the engine again. *)
Reclean ==
    /\ pc = "done"
    /\ pass < MaxPass
    /\ input' = cleaned_df
    /\ df' = cleaned_df
    /\ cleaned_df' = EmptyTable
    /\ report' = NoReport
    /\ pass' = pass + 1
    /\ pc' = "ready"
    /\ UNCHANGED clock
    /\ UNCHANGED service_vars

Next ==
    \/ Assess
    \/ Copy
    \/ RemoveDuplicates
    \/ CleanColumnNames
    \/ HandleMissingValues
    \/ CleanTextFields
    \/ StandardizeDataTypes
    \/ HandleOutliers
    \/ AddQualityIndicators
    \/ Reclean

Spec == Init /\ [][Next]_vars

(* The same engine, given the tables with a sparse column. *)
InitSparse ==
    /\ input \in SparseTables
    /\ df = input
    /\ cleaned_df = EmptyTable
    /\ pc = "ready"
    /\ clock = 0
    /\ report = NoReport
    /\ pass = 1
    /\ NoService

SpecSparse == InitSparse /\ [][Next]_vars

(* The assessment alone, of the one-column tables and of the large table. *)
InitLarge ==
    /\ input \in OneColumnTables \cup LargeTables \cup TextCaseTables
    /\ df = input
    /\ cleaned_df = EmptyTable
    /\ pc = "ready"
    /\ clock = 0
    /\ report = NoReport
    /\ pass = 1
    /\ NoService

SpecLarge == InitLarge /\ [][Assess]_vars

-----------------------------------------------------------------------------
(* DataCleanService (src/data-clean/main.py). *)

(* The methods the class DataCleanService defines. *)
DataCleanServiceMethods ==
    {"__init__", "run_cleaning_cycle", "_find_raw_files", "_process_file",
     "_generate_cleaning_summary", "_update_processing_status",
     "_update_cleaning_status", "start"}

(* What pd.read_csv gives for the raw files: a table of one row; a file of  *)
(* a header line only; a table with the columns 'A' and 'a'.                *)
GoodRaw ==
    Table(RowLabels(1), <<Column(<<97>>, "int64", <<NumInt(1)>>)>> \o MetadataColumns(1))
HeaderOnlyRaw ==
    Table(RowLabels(0), <<Column(<<97>>, "object", <<>>)>> \o MetadataColumns(0))
AmbiguousRaw ==
    Table(RowLabels(1),
          <<Column(<<65>>, "int64", <<NumInt(1)>>), Column(<<97>>, "int64", <<NumInt(1)>>)>>
              \o MetadataColumns(1))
RawTables == {GoodRaw, HeaderOnlyRaw, AmbiguousRaw}

(* The try block of _process_file on the table t read at time now:         *)
(* "completed", or the exception that leaves it (the KeyError of the        *)
(* assessment, the ValueError of the cleaning, the ZeroDivisionError of     *)
(* 'removal_percentage' in _generate_cleaning_summary for a table without   *)
(* rows).                                                                   *)
process_file(t, now) ==
    IF assess_data_quality(t, now, now).kind = "raised" THEN "KeyError"
    ELSE IF clean_data(t, now, now).raised THEN "ValueError"
    ELSE IF NRows(t) = 0 THEN "ZeroDivisionError"
    ELSE "completed"

(* Whether to_csv and json.dump succeed is the file system's choice. *)
WriteOutcomes == {"written", "csv_fails", "json_fails"}

(* The try block of _process_file step by step: what it has done, in order, *)
(* ending with "completed" or with the exception that leaves it; computed   *)
(* is what the assessment, the cleaning and the summary come to.            *)
try_block(computed, io) ==
    IF computed = "KeyError" THEN <<"KeyError">>
    ELSE IF computed = "ValueError" THEN <<"assessed", "ValueError">>
    ELSE IF computed = "ZeroDivisionError"
         THEN <<"assessed", "cleaned", "ZeroDivisionError">>
    ELSE IF io = "csv_fails" THEN <<"assessed", "cleaned", "summarised", "OSError">>
    ELSE IF io = "json_fails"
         THEN <<"assessed", "cleaned", "summarised", "csv_written", "OSError">>
    ELSE <<"assessed", "cleaned", "summarised", "csv_written", "json_written",
           "completed">>

(* _update_processing_status *)
update_processing_status(store, filename, status, now, error_message) ==
    redis_set(store, Key("clean_status", filename),
              json_dumps([status |-> status, timestamp |-> IsoText(now),
                          error_message |-> error_message]))

(* _update_cleaning_status *)
update_cleaning_status(store, now) ==
    redis_set(store, Key("cleaning_status", NoName),
              json_dumps([last_cleaning |-> IsoText(now), status |-> "completed"]))

(* _find_raw_files: the raw files whose stored status is not the string     *)
(* 'completed', in the order glob gives them (any).                         *)
unprocessed_files(store, raw) ==
    {f \in DOMAIN raw : redis_get(store, Key("clean_status", f)) # Text("completed")}
find_raw_files(store, raw) ==
    DistinctSeqs(unprocessed_files(store, raw), Cardinality(unprocessed_files(store, raw)))

InitClean ==
    /\ input = EmptyTable
    /\ df = EmptyTable
    /\ cleaned_df = EmptyTable
    /\ pc = "service"
    /\ clock = 0
    /\ report = NoReport
    /\ pass = 1
    /\ shared \in {[raw |-> raw, cleaned |-> {}, summaries |-> {}] :
                      raw \in [Files -> RawTables]}
    /\ redis = EmptyStore
    /\ svc = [w \in Workers |-> IdleWorker]
    /\ allas = [o \in {} |-> Nil]
    /\ ingest = IdleIngest

(* run_cleaning_cycle starts: raw_files = self._find_raw_files(); without   *)
(* raw files the cycle returns at once.                                     *)
FindRawFiles(w) ==
    /\ svc[w].pc = "idle"
    /\ svc[w].cycles < MaxCycles
    /\ \E raw_files \in find_raw_files(redis, shared.raw) :
          svc' = [svc EXCEPT ![w] =
                    IF raw_files = <<>>
                    THEN [pc |-> "idle", raw_files |-> <<>>, k |-> 1,
                          cycles |-> svc[w].cycles + 1,
                          handled |-> {}, failed |-> {}, outcome |-> "nothing",
                          steps |-> <<>>]
                    ELSE [pc |-> "looping", raw_files |-> raw_files, k |-> 1,
                          cycles |-> svc[w].cycles,
                          handled |-> {}, failed |-> {}, outcome |-> "running",
                          steps |-> <<>>]]
    /\ UNCHANGED <<clock, shared, redis, allas, ingest>>
    /\ UNCHANGED engine_vars

(* _process_file begins: the status of the file becomes 'processing'. *)
BeginFile(w) ==
    /\ svc[w].pc = "looping"
    /\ svc[w].k <= Len(svc[w].raw_files)
    /\ \E now \in clock..MaxClock :
          /\ redis' = update_processing_status(redis, svc[w].raw_files[svc[w].k],
                                               "processing", now, "None")
          /\ clock' = now
    /\ svc' = [svc EXCEPT ![w].pc = "processing", ![w].steps = <<>>,
                          ![w].handled = @ \cup {svc[w].raw_files[svc[w].k]}]
    /\ UNCHANGED <<shared, allas, ingest>>
    /\ UNCHANGED engine_vars

(* The try block of _process_file for the file f ends well: the cleaned     *)
(* file and the summary are written, the status becomes 'completed', and    *)
(* the loop goes on.                                                        *)
FileCompleted(w, f, now) ==
    /\ shared' = [shared EXCEPT !.cleaned = @ \cup {f}, !.summaries = @ \cup {f}]
    /\ redis' = update_processing_status(redis, f, "completed", now, "None")
    /\ svc' = [svc EXCEPT ![w].pc = "looping", ![w].k = @ + 1,
                          ![w].steps = try_block("completed", "written")]

(* The try block raises, and no status is set for it. *)
FileFailedUnrecorded(w, f, now, steps) ==
    /\ shared' = IF "csv_written" \in Range(steps)
                 THEN [shared EXCEPT !.cleaned = @ \cup {f}] ELSE shared
    /\ redis' = redis
    /\ svc' = [svc EXCEPT ![w].pc = "idle", ![w].cycles = @ + 1,
                          ![w].failed = @ \cup {f},
                          ![w].outcome = "aborted", ![w].steps = steps]

(* The try block raises after the steps (the last is the error; a cleaned   *)
(* file written before stays): _process_file sets the status 'error' and    *)
(* raises again; the handler in run_cleaning_cycle calls                    *)
(* self._update_file_status, which marks the file and lets the loop go on   *)
(* if the class has such a method, and otherwise raises AttributeError,     *)
(* which leaves the loop for the outer handler: the cycle ends there.       *)
FileFailed(w, f, now, steps) ==
    /\ shared' = IF "csv_written" \in Range(steps)
                 THEN [shared EXCEPT !.cleaned = @ \cup {f}] ELSE shared
    /\ IF "_update_file_status" \in DataCleanServiceMethods
       THEN /\ redis' = update_processing_status(
                            update_processing_status(redis, f, "error", now,
                                                     steps[Len(steps)]),
                            f, "error", now, steps[Len(steps)])
            /\ svc' = [svc EXCEPT ![w].pc = "looping", ![w].k = @ + 1,
                                  ![w].failed = @ \cup {f}, ![w].steps = steps]
       ELSE /\ redis' = update_processing_status(redis, f, "error", now,
                                                 steps[Len(steps)])
            /\ svc' = [svc EXCEPT ![w].pc = "idle", ![w].cycles = @ + 1,
                                  ![w].failed = @ \cup {f},
                                  ![w].outcome = "aborted", ![w].steps = steps]

(* _process_file, after the status 'processing' *)
ProcessFile(w) ==
    /\ svc[w].pc = "processing"
    /\ \E now \in clock..MaxClock :
          \E computed \in {process_file(shared.raw[svc[w].raw_files[svc[w].k]], now)} :
              \E io \in WriteOutcomes :
                  /\ IF try_block(computed, io) = try_block("completed", "written")
                     THEN FileCompleted(w, svc[w].raw_files[svc[w].k], now)
                     ELSE FileFailed(w, svc[w].raw_files[svc[w].k], now,
                                     try_block(computed, io))
                  /\ clock' = now
    /\ UNCHANGED <<allas, ingest>>
    /\ UNCHANGED engine_vars

(* After the loop: self._update_cleaning_status() *)
FinishCycle(w) ==
    /\ svc[w].pc = "looping"
    /\ svc[w].k > Len(svc[w].raw_files)
    /\ \E now \in clock..MaxClock :
          /\ redis' = update_cleaning_status(redis, now)
          /\ clock' = now
    /\ svc' = [svc EXCEPT ![w].pc = "idle", ![w].cycles = @ + 1,
                          ![w].outcome = "completed"]
    /\ UNCHANGED <<shared, allas, ingest>>
    /\ UNCHANGED engine_vars

NextClean ==
    \E w \in Workers :
        \/ FindRawFiles(w)
        \/ BeginFile(w)
        \/ ProcessFile(w)
        \/ FinishCycle(w)

SpecClean == InitClean /\ [][NextClean]_vars

-----------------------------------------------------------------------------
(* DataIngestService (src/data-ingest/main.py). *)

SourceFile == <<115, 111, 117, 114, 99, 101, 95, 102, 105, 108, 101>>   \* 'source_file'

(* What process_raw_data gives at time now for the object name, a CSV of    *)
(* one value: its column and the columns 'ingested_at', 'data_source' and   *)
(* 'source_file' that _clean_dataframe adds.                                *)
process_raw_data(name, now) ==
    Table(RowLabels(1),
          <<Column(<<97>>, "int64", <<NumInt(1)>>),
            Column(IngestedAt, "object", <<Str(IsoText(now))>>),
            Column(DataSource, "object", <<Str(<<115>>)>>),
            Column(SourceFile, "object", <<Str(DigitsOf(name))>>)>>)

(* allas_client.list_files(): name and 'last_modified' of every object *)
list_files(container) ==
    [o \in DOMAIN container |->
        [name |-> o, last_modified |-> Text(IsoText(container[o].last_modified))]]

(* if (not last_modified or file_info['last_modified'] != last_modified) *)
needs_processing(store, file_info) ==
    \/ redis_get(store, Key("file", file_info.name)) = Nil
    \/ file_info.last_modified # redis_get(store, Key("file", file_info.name))

(* _filter_new_files *)
filter_new_files(store, files) ==
    Pick(files, SelectIdx(Len(files),
                          [j \in DOMAIN files |-> needs_processing(store, files[j])], 1))

(* _update_file_status: the status, and the time of the call under the key  *)
(* 'file:<filename>'.                                                       *)
update_file_status(store, filename, status, now) ==
    redis_set(redis_set(store, Key("status", filename), Text(status)),
              Key("file", filename), Text(IsoText(now)))

(* _update_sync_status *)
update_sync_status(store, last_sync_time) ==
    redis_set(store, Key("sync_status", NoName),
              json_dumps([last_sync |-> IsoText(last_sync_time), status |-> "completed",
                          service |-> "data-ingest"]))

(* The container holds MaxFiles objects, last modified at time 0, each one  *)
(* readable as a table or not.                                              *)
InitIngest ==
    /\ input = EmptyTable
    /\ df = EmptyTable
    /\ cleaned_df = EmptyTable
    /\ pc = "service"
    /\ clock = 0
    /\ report = NoReport
    /\ pass = 1
    /\ shared = NoFilesShared
    /\ redis = EmptyStore
    /\ svc = [w \in Workers |-> IdleWorker]
    /\ allas \in [Files -> {[last_modified |-> 0, ok |-> b] : b \in BOOLEAN}]
    /\ ingest = IdleIngest

(* run_ingestion_cycle starts: the objects are listed and filtered; without *)
(* a new file the cycle returns at once.                                    *)
FilterNewFiles ==
    /\ ingest.pc = "idle"
    /\ ingest.cycles < MaxCycles
    /\ ingest' =
          IF filter_new_files(redis, list_files(allas)) = <<>>
          THEN [ingest EXCEPT !.new_files = <<>>, !.k = 1, !.cycles = @ + 1]
          ELSE [ingest EXCEPT !.pc = "looping", !.k = 1,
                              !.new_files = filter_new_files(redis, list_files(allas))]
    /\ UNCHANGED <<clock, shared, redis, svc, allas>>
    /\ UNCHANGED engine_vars

(* The body of the loop for one file: downloaded, processed, saved as       *)
(* raw_<name> and marked 'ingested', or marked 'error' when any of that     *)
(* raises.                                                                  *)
IngestFile ==
    /\ ingest.pc = "looping"
    /\ ingest.k <= Len(ingest.new_files)
    /\ \E now \in clock..MaxClock :
          /\ IF allas[ingest.new_files[ingest.k].name].ok
             THEN /\ shared' =
                        [shared EXCEPT !.raw =
                            [f \in DOMAIN shared.raw \cup {ingest.new_files[ingest.k].name} |->
                                IF f = ingest.new_files[ingest.k].name
                                THEN process_raw_data(f, now) ELSE shared.raw[f]]]
                  /\ redis' = update_file_status(redis, ingest.new_files[ingest.k].name,
                                                 "ingested", now)
                  /\ ingest' =
                        [ingest EXCEPT
                            !.k = @ + 1,
                            !.seen =
                                [o \in DOMAIN ingest.seen \cup {ingest.new_files[ingest.k].name} |->
                                    IF o = ingest.new_files[ingest.k].name
                                    THEN allas[o].last_modified ELSE ingest.seen[o]]]
             ELSE /\ shared' = shared
                  /\ redis' = update_file_status(redis, ingest.new_files[ingest.k].name,
                                                 "error", now)
                  /\ ingest' = [ingest EXCEPT !.k = @ + 1]
          /\ clock' = now
    /\ UNCHANGED <<svc, allas>>
    /\ UNCHANGED engine_vars

(* After the loop: last_sync_time and 'sync_status' are set. *)
FinishIngest ==
    /\ ingest.pc = "looping"
    /\ ingest.k > Len(ingest.new_files)
    /\ \E now \in clock..MaxClock :
          /\ redis' = update_sync_status(redis, now)
          /\ ingest' = [ingest EXCEPT !.pc = "idle", !.cycles = @ + 1,
                                      !.last_sync_time = Text(IsoText(now))]
          /\ clock' = now
    /\ UNCHANGED <<shared, svc, allas>>
    /\ UNCHANGED engine_vars

(* Somebody replaces the object o in the container. *)
ModifyObject(o) ==
    /\ \E now \in clock..MaxClock :
          /\ now > allas[o].last_modified
          /\ allas' = [allas EXCEPT ![o].last_modified = now]
          /\ clock' = now
    /\ UNCHANGED <<shared, redis, svc, ingest>>
    /\ UNCHANGED engine_vars

NextIngest ==
    \/ FilterNewFiles
    \/ IngestFile
    \/ FinishIngest
    \/ \E o \in Files : ModifyObject(o)

SpecIngest == InitIngest /\ [][NextIngest]_vars

-----------------------------------------------------------------------------
(* Properties. *)

(* The control points at which clean_data holds a working table. *)
Working ==
    {"copied", "deduplicated", "renamed", "imputed", "text_cleaned", "typed",
     "outliers_handled"}

(* The position in t of the row labelled label. *)
RowOf(t, label) == CHOOSE i \in 1..NRows(t) : t.index[i] = label

Indicators == {CleanedAt, CompletenessScore}

(* C1: every stage of clean_data (dedup, rename, missing values, text,      *)
(* types, outliers, annotation) leaves the working table with at most the   *)
(* rows it had before the stage, the working and the returned table never   *)
(* have more rows than the input, and rows_removed of the cleaning summary  *)
(* is never negative.                                                       *)
C1_RowsNeverIncrease ==
    [][/\ pc \in Working => NRows(cleaned_df') <= NRows(cleaned_df)
       /\ pc' \in Working \cup {"done"} => NRows(cleaned_df') <= NRows(input')
       /\ pc' = "done" => rows_removed(df', cleaned_df') >= 0]_vars

C1_RowsWereRemoved == pc = "done" /\ rows_removed(df, cleaned_df) > 0

(* Every metadata column of orig is a column of cleaned under its name, and *)
(* holds on every row of cleaned the value that row has in orig.            *)
MetadataKept(orig, cleaned) ==
    \A j \in DOMAIN orig.cols :
        orig.cols[j].name \in {IngestedAt, DataSource} =>
            \E k \in DOMAIN cleaned.cols :
                /\ cleaned.cols[k].name = orig.cols[j].name
                /\ \A i \in 1..NRows(cleaned) :
                      cleaned.cols[k].vals[i]
                          = orig.cols[j].vals[RowOf(orig, cleaned.index[i])]

(* C2: after every stage, and in the table returned, the metadata columns   *)
(* 'ingested_at' and 'data_source' of the input are there under the same    *)
(* names, and every retained row has in them the values it had in the       *)
(* input.                                                                   *)
C2_MetadataUnchanged == pc \in Working \cup {"done"} => MetadataKept(df, cleaned_df)

C2_RowsDroppedBesideMetadata ==
    /\ pc = "done"
    /\ {IngestedAt, DataSource} \subseteq ColumnSet(df)
    /\ \E i \in 1..NRows(cleaned_df) : cleaned_df.index[i] # df.index[i]
    /\ \E j \in DOMAIN df.cols : df.cols[j].dtype = "object" /\ df.cols[j].name = <<120>>

(* The names the columns of t have after _clean_column_names. *)
NormalisedNames(t) ==
    {IF t.cols[j].name \in {IngestedAt, DataSource} THEN t.cols[j].name
     ELSE clean_name(t.cols[j].name, j - 1) : j \in DOMAIN t.cols}

InPercent(x) == RLe(RInt(0), x) /\ RLe(x, RInt(100))

(* C4: for a table with at least one row, the four dimension scores and the *)
(* overall score of the report lie in [0, 100].                             *)
C4_ScoresInPercent ==
    (report.kind = "report" /\ NRows(df) > 0) =>
        /\ \A k \in DOMAIN Dimensions : InPercent(report[Dimensions[k]].score)
        /\ InPercent(report.overall_score)

C4_ScoreBelowHundred ==
    /\ report.kind = "report"
    /\ NRows(df) > 0
    /\ RLt(report.consistency.score, RInt(100))
    /\ RLt(report.completeness.score, RInt(100))
    /\ RLt(RInt(0), report.overall_score)

(* The report without its timestamp. *)
Untimed(r) ==
    IF r.kind = "report" THEN [r EXCEPT !.assessment_timestamp = <<>>] ELSE r

(* The table without its 'cleaned_at' column. *)
WithoutCleanedAt(t) == Table(t.index, Pick(t.cols, ColsNotIn(t, {CleanedAt})))

(* The cells of the datetime data columns of t that are later than now. *)
FutureDates(t, now) ==
    {c \in (DOMAIN t.cols) \X (1..NRows(t)) :
        /\ t.cols[c[1]].dtype = "datetime64[ns]"
        /\ t.cols[c[1]].name \notin {IngestedAt, DataSource}
        /\ notna(t.cols[c[1]].vals[c[2]])
        /\ t.cols[c[1]].vals[c[2]].n > now}

(* Some text value of a data column of t reads 'now' once stripped and      *)
(* lowercased.                                                              *)
MentionsNow(t) ==
    \E j \in DOMAIN t.cols :
        /\ t.cols[j].dtype = "object"
        /\ t.cols[j].name \notin {IngestedAt, DataSource}
        /\ \E i \in 1..NRows(t) :
              /\ notna(t.cols[j].vals[i])
              /\ str_lower(str_strip(t.cols[j].vals[i].s)) = NowText

(* The report of a run at time now is the report in hand, timestamp apart. *)
SameReportAt(now) == Untimed(assess_data_quality(df, now, now)) = Untimed(report)

(* The table in hand is the table r.table that a run returned, 'cleaned_at' *)
(* apart.                                                                   *)
SameTableAs(r) ==
    ~r.raised /\ WithoutCleanedAt(r.table) = WithoutCleanedAt(cleaned_df)

(* The table in hand is, 'cleaned_at' apart, the table of the run that      *)
(* reads the time 0 throughout.  (All runs equal to that one are equal to   *)
(* each other.)                                                             *)
SameTableAsAtTimeZero == SameTableAs(clean_data(input, 0, 0))

C6_SecondDedupRemovesNothing ==
    (pass > 1 /\ pc = "deduplicated") => NRows(cleaned_df) = NRows(df)

(* C7: neither assess_data_quality(T) nor clean_data(T) changes the         *)
(* caller's table T: at every point of both calls it has the columns, the   *)
(* names, the rows and the values it was handed over with.                  *)
C7_CallerTableUnchanged == df = input

C7_CleanedDiffersFromInput ==
    /\ pc = "done"
    /\ report.kind = "report"
    /\ NRows(cleaned_df) < NRows(df)
    /\ Len(cleaned_df.cols) > Len(df.cols)
    /\ ColumnSet(df) \cap ColumnSet(cleaned_df) = {}

(* C8, as stated: assess_data_quality returns a report for every table, and *)
(* each of its four dimension sub-reports has a 'score' and a boolean       *)
(* 'threshold_met'.                                                         *)
C8_AssessNeverRaises ==
    pc = "assessed" =>
        /\ report.kind = "report"
        /\ \A k \in DOMAIN Dimensions :
              /\ {"score", "threshold_met"} \subseteq DOMAIN report[Dimensions[k]]
              /\ report[Dimensions[k]].threshold_met \in BOOLEAN

(* The columns rows are compared on: the non-metadata ones, or all of them  *)
(* when there is none.                                                      *)
ComparedCols(t) ==
    IF \E j \in DOMAIN t.cols : t.cols[j].name \notin {IngestedAt, DataSource}
    THEN ColsNotIn(t, {IngestedAt, DataSource}) ELSE AllCols(t)

(* The first row of t equal to row k on the columns js. *)
FirstLike(t, js, k) ==
    CHOOSE f \in 1..k :
        /\ RowKey(t, js, f) = RowKey(t, js, k)
        /\ \A e \in 1..(f - 1) : RowKey(t, js, e) # RowKey(t, js, k)

(* kept holds, in the order of t, exactly the first rows of t for each      *)
(* combination of values of the columns js.                                 *)
FirstOccurrencesKept(t, kept, js) ==
    /\ \A i \in 1..NRows(kept) :
          /\ kept.index[i] \in Range(t.index)
          /\ \A j \in DOMAIN t.cols :
                kept.cols[j].vals[i] = t.cols[j].vals[RowOf(t, kept.index[i])]
          /\ \A e \in 1..(i - 1) :
                RowOf(t, kept.index[e]) < RowOf(t, kept.index[i])
    /\ \A k \in 1..NRows(t) :
          /\ Cardinality({i \in 1..NRows(kept) :
                            RowKey(kept, js, i) = RowKey(t, js, k)}) = 1
          /\ t.index[FirstLike(t, js, k)] \in Range(kept.index)

(* C9: the deduplication keeps one row for each combination of non-metadata *)
(* values, the first in input order, the kept rows in input order; rows     *)
(* that differ in metadata only are duplicates; without a non-metadata      *)
(* column rows are compared on all columns; 1, 1, 2 leaves two rows.        *)
C9_FirstOccurrenceKept ==
    pc = "deduplicated" =>
        /\ Columns(cleaned_df) = Columns(df)
        /\ FirstOccurrencesKept(df, cleaned_df, ComparedCols(df))
        /\ (Len(df.cols) = 1 /\ df.cols[1].vals = <<NumInt(1), NumInt(1), NumInt(2)>>)
              => NRows(cleaned_df) = 2

C9_MetadataOnlyDifference ==
    /\ pc = "deduplicated"
    /\ NRows(cleaned_df) = 2
    /\ NRows(df) = 3
    /\ Len(ComparedCols(df)) = 1
    /\ IngestedAt \in ColumnSet(df)

(* The one numeric non-metadata column of t, if it has exactly one. *)
NumericDataCols(t) ==
    {j \in DOMAIN t.cols :
        IsNumericDtype(t.cols[j].dtype) /\ t.cols[j].name \notin {IngestedAt, DataSource}}
TheNumericCol(t) == CHOOSE j \in NumericDataCols(t) : TRUE

(* before, whose column j has nout values outside the bounds b, was treated *)
(* into after: fewer than 5% of the rows, and they are gone and no value is *)
(* changed; otherwise no row is gone and the values of column j are capped. *)
OutliersTreated(before, after, j, b, nout) ==
    IF nout * 100 < 5 * NRows(before)
    THEN /\ NRows(after) < NRows(before)
         /\ \A i \in 1..NRows(before) :
               IsOutlier(before.cols[j].vals[i], b) =>
                   before.index[i] \notin Range(after.index)
         /\ \A i \in 1..NRows(after) :
               /\ after.index[i] \in Range(before.index)
               /\ \A k \in DOMAIN before.cols :
                     after.cols[k].vals[i]
                         = before.cols[k].vals[RowOf(before, after.index[i])]
    ELSE /\ after.index = before.index
         /\ \A k \in DOMAIN before.cols : k # j => after.cols[k] = before.cols[k]
         /\ \A i \in 1..NRows(before) :
               IF isna(before.cols[j].vals[i]) THEN isna(after.cols[j].vals[i])
               ELSE IF RLt(RatOf(before.cols[j].vals[i]), b.lower)
                    THEN RatOf(after.cols[j].vals[i]) = b.lower
               ELSE IF RLt(b.upper, RatOf(before.cols[j].vals[i]))
                    THEN RatOf(after.cols[j].vals[i]) = b.upper
               ELSE RatOf(after.cols[j].vals[i]) = RatOf(before.cols[j].vals[i])

OutlierStep(before, after, j, b) ==
    OutlierCount(before.cols[j].vals, b) > 0 =>
        OutliersTreated(before, after, j, b, OutlierCount(before.cols[j].vals, b))

ScenarioB == <<NumInt(1), NumInt(2), NumInt(3), NumInt(4), NumInt(100)>>

(* C10: the outlier stage, on a table whose one numeric non-metadata column *)
(* has a value outside [Q1 - 1.5 IQR, Q3 + 1.5 IQR]: with fewer than 5% of  *)
(* the rows outside, those rows are removed and nothing is capped; with 5%  *)
(* or more, no row is removed and the column is capped into the bounds.     *)
(* 1, 2, 3, 4, 100 has the bounds -1 and 7, and becomes 1, 2, 3, 4, 7.      *)
C10_OutliersRemovedOrCapped ==
    [][(/\ pc = "typed"
        /\ Cardinality(NumericDataCols(cleaned_df)) = 1
        /\ dropna(cleaned_df.cols[TheNumericCol(cleaned_df)].vals) # <<>>) =>
          /\ OutlierStep(cleaned_df, cleaned_df', TheNumericCol(cleaned_df),
                         iqr_bounds(cleaned_df.cols[TheNumericCol(cleaned_df)].vals, 3))
          /\ cleaned_df.cols[TheNumericCol(cleaned_df)].vals = ScenarioB =>
                /\ iqr_bounds(ScenarioB, 3) = [lower |-> RInt(-1), upper |-> RInt(7)]
                /\ NRows(cleaned_df') = 5
                /\ [i \in 1..5 |-> RatOf(cleaned_df'.cols[TheNumericCol(cleaned_df)].vals[i])]
                      = <<RInt(1), RInt(2), RInt(3), RInt(4), RInt(7)>>]_vars

C10_ExactlyFivePercentCapped ==
    /\ pc = "outliers_handled"
    /\ NRows(df) = NRows(cleaned_df)
    /\ NRows(df) = MaxRamp - 1
    /\ df.cols[1].vals[NRows(df)] = NumInt(Far)
    /\ RLt(RatOf(cleaned_df.cols[1].vals[NRows(df)]), RInt(Far))

(* The non-metadata columns of t of which nulls in every total values are   *)
(* absent.                                                                  *)
NullShare(t, nulls, total) ==
    {j \in DOMAIN t.cols :
        /\ t.cols[j].name \notin {IngestedAt, DataSource}
        /\ NRows(t) > 0
        /\ NullCount(t.cols[j].vals) * total = nulls * NRows(t)}

ProfiledNames(r) == {r.column_profiles[k].column : k \in DOMAIN r.column_profiles}

(* C11, as stated: when a raw table is assessed and then cleaned, a         *)
(* non-metadata column of it that is 95% null is neither in the cleaned     *)
(* table nor in the 'column_profiles' of the quality report.                *)
C11_SparseColumnNowhere ==
    (pc = "done" /\ report.kind = "report") =>
        \A j \in NullShare(input, 95, 100) :
            /\ input.cols[j].name \notin ColumnSet(cleaned_df)
            /\ input.cols[j].name \notin ProfiledNames(report)

(* The text columns of t that are not metadata. *)
TextCols(t) ==
    {j \in DOMAIN t.cols :
        t.cols[j].dtype = "object" /\ t.cols[j].name \notin {IngestedAt, DataSource}}

(* v is a text without blanks at its ends, in lowercase, and not empty. *)
TrimmedLowercase(v) ==
    /\ v.t = "str"
    /\ v.s = str_strip(v.s)
    /\ v.s = str_lower(v.s)
    /\ v.s # <<>>

Cat == <<99, 97, 116>>

(* C12, as amended: the text stage turns every value of every text          *)
(* non-metadata column into a text without blanks at its ends, in lowercase *)
(* and not empty; the values that read '' or 'nan' once stripped become     *)
(* 'unknown', so the result reads 'nan' only where the stripped value       *)
(* differed from 'nan' by case.  ' Cat ', 'cat', '', None becomes           *)
(* 'cat', 'cat', 'unknown', 'unknown'.                                      *)
C12_TextIsNormalised ==
    [][pc = "imputed" =>
          /\ \A j \in TextCols(cleaned_df) : \A i \in 1..NRows(cleaned_df) :
                /\ TrimmedLowercase(cleaned_df'.cols[j].vals[i])
                /\ str_strip(astype_str(cleaned_df.cols[j].vals[i])) \in {<<>>, NanText}
                      => cleaned_df'.cols[j].vals[i].s = Unknown
                /\ cleaned_df'.cols[j].vals[i].s = NanText
                      => /\ str_strip(astype_str(cleaned_df.cols[j].vals[i])) # NanText
                         /\ str_lower(str_strip(astype_str(cleaned_df.cols[j].vals[i])))
                               = NanText
          /\ (Len(df.cols) > 0 /\ df.cols[1].vals = ScenarioD)
                => cleaned_df'.cols[1].vals
                      = <<Str(Cat), Str(Cat), Str(Unknown), Str(Unknown)>>]_vars

(* C12, as stated: after the text stage no value of a text non-metadata     *)
(* column has blanks at its ends, an uppercase letter, is empty or reads    *)
(* 'nan'.                                                                   *)
C12_NoNanTextLeft ==
    pc = "text_cleaned" =>
        \A j \in TextCols(cleaned_df) : \A i \in 1..NRows(cleaned_df) :
            /\ TrimmedLowercase(cleaned_df.cols[j].vals[i])
            /\ cleaned_df.cols[j].vals[i].s # NanText

C12_ScenarioDCleaned ==
    /\ pc = "text_cleaned"
    /\ Len(df.cols) > 0
    /\ df.cols[1].vals = ScenarioD
    /\ cleaned_df.cols[1].vals = <<Str(Cat), Str(Cat), Str(Unknown), Str(Unknown)>>

(* C13, as stated: in a report, threshold_met of each dimension is true     *)
(* exactly when the reported score is at least the threshold (80, 95, 90,   *)
(* 85), and when all four reported scores are at least their thresholds the *)
(* recommendations are the single message that all thresholds are met.      *)
C13_ThresholdMetIffReportedScore ==
    report.kind = "report" =>
        /\ \A k \in DOMAIN Dimensions :
              report[Dimensions[k]].threshold_met
                  <=> AtLeast(report[Dimensions[k]].score, quality_thresholds[Dimensions[k]])
        /\ (\A k \in DOMAIN Dimensions :
              AtLeast(report[Dimensions[k]].score, quality_thresholds[Dimensions[k]]))
              => report.recommendations = <<AllMet>>

(* The status stored for the raw file f is the document with this status. *)
HasStatus(store, f, status) ==
    /\ redis_get(store, Key("clean_status", f)).kind = "json"
    /\ redis_get(store, Key("clean_status", f)).doc.status = status

(* The file the worker w is processing. *)
CurrentFile(w) == svc[w].raw_files[svc[w].k]

(* C14, as stated: when the processing of a file fails in a cleaning cycle, *)
(* every other raw file found in that cycle is still processed, the failed  *)
(* file has the status 'error', and the cycle ends with 'cleaning_status'   *)
(* recorded as completed.                                                   *)
C14_FailureIsIsolated ==
    \A w \in Workers :
        (svc[w].pc = "idle" /\ svc[w].failed # {}) =>
            /\ Range(svc[w].raw_files) \subseteq svc[w].handled
            /\ svc[w].outcome = "completed"
            /\ Key("cleaning_status", NoName) \in DOMAIN redis
            /\ \A f \in svc[w].failed : HasStatus(redis, f, "error")

(* C15, as stated: a raw file whose status was recorded as 'completed' is   *)
(* in no list _find_raw_files returns afterwards, and is not cleaned        *)
(* successfully again.                                                      *)
C15_CompletedFilesNotFoundAgain ==
    [][\A w \in Workers :
          /\ (svc[w].pc = "idle" /\ svc'[w].pc = "looping") =>
                \A f \in Range(svc'[w].raw_files) : ~HasStatus(redis, f, "completed")
          /\ (svc[w].pc = "processing" /\ svc'[w].pc = "looping") =>
                ~HasStatus(redis, CurrentFile(w), "completed")]_vars

(* C17, as stated: two DataCleanService instances on the same directory and *)
(* store are never both inside _process_file for the same raw file.         *)
C17_OneWorkerPerFile ==
    \A w1, w2 \in Workers :
        (w1 # w2 /\ svc[w1].pc = "processing" /\ svc[w2].pc = "processing") =>
            CurrentFile(w1) # CurrentFile(w2)

(* C16, as stated: _filter_new_files returns no file that was ingested in   *)
(* an earlier cycle and whose 'last_modified' in the container is what it   *)
(* was when the file was ingested.                                          *)
C16_UnchangedFilesNotReturned ==
    [][(ingest.pc = "idle" /\ ingest'.pc = "looping") =>
          \A j \in DOMAIN ingest'.new_files :
              ~(/\ ingest'.new_files[j].name \in DOMAIN ingest.seen
                /\ ingest.seen[ingest'.new_files[j].name]
                      = allas[ingest'.new_files[j].name].last_modified)]_vars

(* The data columns of t: all but 'ingested_at' and 'data_source'. *)
DataColumns(t) == {j \in DOMAIN t.cols : t.cols[j].name \notin {IngestedAt, DataSource}}

(* The column of t named name. *)
ColumnNamed(t, name) == t.cols[CHOOSE j \in DOMAIN t.cols : t.cols[j].name = name]

(* C18: the missing-value stage drops a non-metadata column if and only if  *)
(* more than 90% of its values (of the rows left after deduplication) are   *)
(* absent; a column with exactly 90% absent values is kept and has none     *)
(* afterwards, and a column without an absent value is left as it is.       *)
C18_DroppedIffOver90 ==
    [][(pc = "renamed" /\ pc' = "imputed") =>
          \A j \in DataColumns(cleaned_df) :
              /\ cleaned_df.cols[j].name \notin ColumnSet(cleaned_df')
                    <=> NullCount(cleaned_df.cols[j].vals) * 100 > 90 * NRows(cleaned_df)
              /\ j \in NullShare(cleaned_df, 9, 10) =>
                    /\ cleaned_df.cols[j].name \in ColumnSet(cleaned_df')
                    /\ NullCount(ColumnNamed(cleaned_df', cleaned_df.cols[j].name).vals) = 0
              /\ NullCount(cleaned_df.cols[j].vals) = 0 =>
                    /\ cleaned_df.cols[j].name \in ColumnSet(cleaned_df')
                    /\ ColumnNamed(cleaned_df', cleaned_df.cols[j].name) = cleaned_df.cols[j]]_vars

C18_NinetyPercentKept ==
    /\ pc = "imputed"
    /\ pass = 1
    /\ \E j \in NullShare(input, 9, 10) :
          /\ input.cols[j].name \in ColumnSet(cleaned_df)
          /\ NullCount(ColumnNamed(cleaned_df, input.cols[j].name).vals) = 0
    /\ NRows(cleaned_df) = NRows(input)

(* m is the median of the numbers p: at most half of them are below it and  *)
(* at most half above; it is one of them, or, when exactly half are below   *)
(* and half above, the mean of the two it lies between.                     *)
IsMedian(m, p) ==
    LET below == {i \in DOMAIN p : RLt(p[i], m)}
        above == {i \in DOMAIN p : RLt(m, p[i])}
    IN  /\ 2 * Cardinality(below) <= Len(p)
        /\ 2 * Cardinality(above) <= Len(p)
        /\ IF 2 * Cardinality(below) = Len(p) /\ 2 * Cardinality(above) = Len(p)
           THEN \E a \in below, b \in above :
                    /\ \A i \in below : RLe(p[i], p[a])
                    /\ \A i \in above : RLe(p[b], p[i])
                    /\ RMul(m, RInt(2)) = RAdd(p[a], p[b])
           ELSE \E i \in DOMAIN p : p[i] = m

(* v is a value of p than which none is more frequent in p. *)
IsMostFrequent(v, p) ==
    /\ \E i \in DOMAIN p : p[i] = v
    /\ \A k \in DOMAIN p :
          Cardinality({i \in DOMAIN p : p[i] = p[k]})
              <= Cardinality({i \in DOMAIN p : p[i] = v})

(* before is a column with some present value, after the same column with   *)
(* every absent value filled according to its kind.                         *)
Imputed(before, after) ==
    \A i \in DOMAIN before.vals :
        IF notna(before.vals[i]) THEN after.vals[i] = before.vals[i]
        ELSE IF before.dtype = "object" THEN after.vals[i] = Str(Unknown)
        ELSE IF before.dtype \in {"int64", "float64"}
             THEN /\ after.vals[i].t = "num"
                  /\ IsMedian(RatOf(after.vals[i]), Present(before.vals))
        ELSE IsMostFrequent(after.vals[i], dropna(before.vals))

(* C19: after the missing-value stage every non-metadata column that was    *)
(* kept has no absent value: an absent cell of a text column holds          *)
(* 'unknown', of a numeric column the median of the column's present        *)
(* values, of a column of another kind the column's most frequent value,    *)
(* and the present cells are unchanged.                                     *)
C19_KeptColumnsImputed ==
    [][(pc = "renamed" /\ pc' = "imputed") =>
          \A j \in DataColumns(cleaned_df) :
              cleaned_df.cols[j].name \in ColumnSet(cleaned_df') =>
                  /\ NullCount(ColumnNamed(cleaned_df', cleaned_df.cols[j].name).vals) = 0
                  /\ Imputed(cleaned_df.cols[j],
                             ColumnNamed(cleaned_df', cleaned_df.cols[j].name))]_vars

C19_MedianBetweenTwoValues ==
    /\ pc = "imputed"
    /\ pass = 1
    /\ input.cols[1].dtype = "float64"
    /\ isna(input.cols[1].vals[1])
    /\ cleaned_df.cols[1].name = input.cols[1].name
    /\ cleaned_df.cols[1].vals[1].d = 2


(* C20: whenever the outlier stage removes rows for the one numeric         *)
(* non-metadata column of the table, the rows removed are exactly the rows  *)
(* whose value is outside the bounds: the row count decreases by the        *)
(* number of outliers, and every row whose value is not outside the         *)
(* bounds, a row whose value is absent after the coercion included, is      *)
(* retained.                                                                *)
C20_ExactlyOutlierRowsRemoved ==
    [][(/\ pc = "typed"
        /\ Cardinality(NumericDataCols(cleaned_df)) = 1
        /\ NRows(cleaned_df') < NRows(cleaned_df)) =>
          LET j == TheNumericCol(cleaned_df)
              b == iqr_bounds(cleaned_df.cols[j].vals, 3)
          IN  /\ NRows(cleaned_df')
                    = NRows(cleaned_df) - OutlierCount(cleaned_df.cols[j].vals, b)
              /\ \A i \in 1..NRows(cleaned_df) :
                    ~IsOutlier(cleaned_df.cols[j].vals[i], b) =>
                        cleaned_df.index[i] \in Range(cleaned_df'.index)]_vars


(* The numeric non-metadata columns of t, the first and the last. *)
FirstNumericCol(t) == CHOOSE j \in NumericDataCols(t) : \A k \in NumericDataCols(t) : j <= k
LastNumericCol(t) == CHOOSE j \in NumericDataCols(t) : \A k \in NumericDataCols(t) : k <= j

(* The table mid came from before by the treatment of column j with the     *)
(* quartiles, the bounds and the percentage of before.                      *)
ColumnTreated(before, mid, j) ==
    IF OutlierCount(before.cols[j].vals, iqr_bounds(before.cols[j].vals, 3)) = 0
    THEN mid = before
    ELSE OutlierStep(before, mid, j, iqr_bounds(before.cols[j].vals, 3))

(* C21: the outlier stage treats the numeric columns in column order, each  *)
(* with the quartiles, the bounds and the outlier percentage of the table   *)
(* as the earlier columns left it: of a table with two numeric non-metadata *)
(* columns, the second is treated on the table the first has been treated   *)
(* into.                                                                    *)
C21_LaterColumnOnReducedTable ==
    [][(/\ pc = "typed"
        /\ Cardinality(NumericDataCols(cleaned_df)) = 2
        /\ \A j \in NumericDataCols(cleaned_df) : NullCount(cleaned_df.cols[j].vals) = 0) =>
          \E mid \in {handle_outliers_col(cleaned_df, FirstNumericCol(cleaned_df))} :
              /\ ColumnTreated(cleaned_df, mid, FirstNumericCol(cleaned_df))
              /\ ColumnTreated(mid, cleaned_df', LastNumericCol(cleaned_df))]_vars

C21_SecondColumnCappedAfterRemoval ==
    /\ pc = "outliers_handled"
    /\ pass = 1
    /\ Cardinality(NumericDataCols(df)) = 2
    /\ NRows(df) = MaxRamp
    /\ NRows(cleaned_df) = MaxRamp - 1
    /\ df.cols[2].vals[MaxRamp - 1] = NumInt(Far)
    /\ RLt(RatOf(cleaned_df.cols[2].vals[MaxRamp - 1]), RInt(Far))


(* Where clean_data is: before its stages, after each of the seven, in      *)
(* their order.                                                             *)
StageOrder ==
    <<"copied", "deduplicated", "renamed", "imputed", "text_cleaned", "typed",
      "outliers_handled", "done">>
StageIndex(p) == CHOOSE k \in DOMAIN StageOrder : StageOrder[k] = p

(* C22: clean_data runs deduplication, column-name normalisation,           *)
(* missing-value handling, text normalisation, type coercion, outlier       *)
(* handling and quality-indicator annotation once each and in this order:   *)
(* every step of clean_data ends the stage that follows the one ended last, *)
(* so the outlier stage starts only when the missing-value stage has        *)
(* ended, or it raises, and after a raise no stage runs.                    *)
C22_StagesOnceInOrder ==
    [][/\ (pc \in Range(StageOrder) /\ pc # "done") =>
             \/ pc' = StageOrder[StageIndex(pc) + 1]
             \/ pc' = "raised"
       /\ pc' \in Range(StageOrder) /\ pc' # "copied" =>
             /\ pc \in Range(StageOrder)
             /\ StageIndex(pc') = StageIndex(pc) + 1
       /\ pc' = "outliers_handled" => pc = "typed"
       /\ pc' = "imputed" => pc = "renamed"
       /\ pc = "raised" => FALSE
       /\ pc \in Range(StageOrder) /\ pc # "done" => pass' = pass]_vars

C22_StageRaised ==
    /\ pc = "raised"
    /\ pass = 1
    /\ NRows(df) > 0
    /\ AmbiguousLabel(cleaned_df)


(* The dimensions of the report r whose threshold is not met, in the order  *)
(* completeness, uniqueness, consistency, validity.                         *)
FailingDimensions(r) ==
    LET fails(dim) == ~r[dim].threshold_met
    IN  SelectSeq(Dimensions, fails)

(* C23: the recommendations of every report are one entry for each          *)
(* dimension whose threshold_met is false, in the order completeness,       *)
(* uniqueness, consistency, validity, each with the dimension's score and   *)
(* threshold, or the single 'all thresholds met' entry when no dimension    *)
(* fails: never empty, and the 'all met' entry never beside another.        *)
C23_OneRecommendationPerFailure ==
    report.kind = "report" =>
        /\ report.recommendations # <<>>
        /\ IF FailingDimensions(report) = <<>>
           THEN report.recommendations = <<AllMet>>
           ELSE /\ Len(report.recommendations) = Len(FailingDimensions(report))
                /\ \A k \in DOMAIN report.recommendations :
                      /\ report.recommendations[k].text
                            = RecommendationText(FailingDimensions(report)[k])
                      /\ report.recommendations[k].current
                            = report[FailingDimensions(report)[k]].score
                      /\ report.recommendations[k].target
                            = quality_thresholds[FailingDimensions(report)[k]]
        /\ (\E k \in DOMAIN report.recommendations :
               report.recommendations[k].text = AllMet.text)
              => Len(report.recommendations) = 1

C23_TwoDimensionsFail ==
    /\ report.kind = "report"
    /\ Len(FailingDimensions(report)) >= 2
    /\ \E d \in Range(Dimensions) : report[d].threshold_met
    /\ Len(report.recommendations) = Len(FailingDimensions(report))


(* s is not empty, is made of lowercase letters, digits and underscores,    *)
(* has no two underscores in a row and does not start with a digit.         *)
WellFormedName(s) ==
    /\ s # <<>>
    /\ \A i \in DOMAIN s : IsLowerChar(s[i]) \/ IsDigitChar(s[i]) \/ s[i] = 95
    /\ \A i \in 1..(Len(s) - 1) : ~(s[i] = 95 /\ s[i + 1] = 95)
    /\ ~IsDigitChar(s[1])

(* C24: every non-metadata column name the column-name stage produces is    *)
(* not empty, consists of lowercase letters, digits and underscores only,   *)
(* has no two consecutive underscores and does not start with a digit,      *)
(* whatever runs of spaces, hyphens, periods or underscores the name had.   *)
C24_NamesWellFormed ==
    pc = "renamed" =>
        \A j \in DataColumns(cleaned_df) : WellFormedName(cleaned_df.cols[j].name)


(* The columns the completeness score of a row is taken over: all but       *)
(* 'ingested_at', 'data_source' and 'cleaned_at'.                           *)
Eligible(t) ==
    {j \in DOMAIN t.cols : t.cols[j].name \notin {IngestedAt, DataSource, CleanedAt}}
PresentInRow(t, i) == Cardinality({j \in Eligible(t) : notna(t.cols[j].vals[i])})
NamesOf(t) == [j \in DOMAIN t.cols |-> t.cols[j].name]

(* The indicator columns the annotation of t writes that t does not have. *)
NewIndicators(t) ==
    LET new(name) == name \notin ColumnSet(t)
    IN  SelectSeq(<<CleanedAt>> \o (IF Eligible(t) = {} THEN <<>> ELSE <<CompletenessScore>>),
                  new)

(* score is 100 * k / n, and: rounded to two decimals. *)
ExactScore(score, k, n) == score = Rat(100 * k, n)
RoundedScore(score, k, n) ==
    /\ RMul(score, RInt(100)).d = 1
    /\ RLe(RSub(Rat(100 * k, n), score), Rat(1, 200))
    /\ RLe(RSub(score, Rat(100 * k, n)), Rat(1, 200))

(* after is before with 'cleaned_at' and then 'completeness_score' after    *)
(* its columns (a column of either name that before has is overwritten      *)
(* where it stands), the score of every row being Scored and in 0..100, and *)
(* 100 exactly when the row has no absent value in the eligible columns.    *)
Annotated(before, after, Scored(_, _, _)) ==
    /\ after.index = before.index
    /\ NamesOf(after) = NamesOf(before) \o NewIndicators(before)
    /\ \A j \in DOMAIN before.cols :
          before.cols[j].name \notin {CleanedAt, CompletenessScore} =>
              after.cols[j] = before.cols[j]
    /\ Eligible(before) = {} => CompletenessScore \notin ColumnSet(after)
    /\ Eligible(before) # {} =>
          \A i \in 1..NRows(before) :
              LET score == RatOf(ColumnNamed(after, CompletenessScore).vals[i])
              IN  /\ Scored(score, PresentInRow(before, i), Cardinality(Eligible(before)))
                  /\ RLe(RInt(0), score) /\ RLe(score, RInt(100))
                  /\ score = RInt(100)
                        <=> PresentInRow(before, i) = Cardinality(Eligible(before))

HasLower(s) == \E i \in DOMAIN s : IsLowerChar(s[i])
HasUpper(s) == \E i \in DOMAIN s : IsUpperChar(s[i])

(* s has letters of both cases. *)
BothCases(s) == HasLower(s) /\ HasUpper(s)

(* s is neither a text with a letter whose letters are all lowercase nor    *)
(* one with a letter whose letters are all uppercase: it has letters of     *)
(* both cases, or no letter at all.                                         *)
NeitherCase(s) == BothCases(s) \/ (~HasLower(s) /\ ~HasUpper(s))

(* The texts of the present values of a text column. *)
PresentTexts(vals) == [i \in DOMAIN dropna(vals) |-> dropna(vals)[i].s]

(* The score of a text column whose present values are the texts p, the     *)
(* values that are Odd counting against the casing.                         *)
TextScore(p, Odd(_)) ==
    100 - (IF Cardinality({i \in DOMAIN p : Odd(p[i])}) * 10 > 3 * Len(p) THEN 20 ELSE 0)
        - (IF \E i \in DOMAIN p : p[i] # <<>> /\ (IsSpaceChar(p[i][1])
                                                  \/ IsSpaceChar(p[i][Len(p[i])]))
           THEN 10 ELSE 0)
        - (IF \E i \in DOMAIN p : p[i] = <<>> THEN 15 ELSE 0)

(* Every text column of df is reported with the score TextScore gives it,   *)
(* which is 55 at least, and with no issue if it has no present value.      *)
TextColumnsScored(Odd(_)) ==
    report.kind = "report" =>
        \A k \in DOMAIN report.consistency.by_column :
            LET col == ColumnNamed(df, report.consistency.by_column[k].column)
                entry == report.consistency.by_column[k]
            IN  col.dtype = "object" =>
                    /\ entry.score = TextScore(PresentTexts(col.vals), Odd)
                    /\ entry.score >= 55
                    /\ dropna(col.vals) = <<>> => entry.score = 100 /\ entry.issues = <<>>

CompletedSteps ==
    <<"assessed", "cleaned", "summarised", "csv_written", "json_written", "completed">>

(* C27: _process_file first records the status 'processing' for its file    *)
(* and, when it ends, has recorded 'completed' or 'error'; it records       *)
(* 'completed' only after it has assessed the raw table, cleaned it,        *)
(* written the cleaned CSV and written the summary JSON, in this order, and *)
(* a failure at any of these steps records 'error' and not 'completed'.     *)
C27_StatusFollowsProcessing ==
    [][\A w \in Workers :
          /\ (svc[w].pc = "looping" /\ svc'[w].pc = "processing") =>
                HasStatus(redis', svc'[w].raw_files[svc'[w].k], "processing")
          /\ (svc[w].pc = "processing" /\ svc'[w].pc # "processing") =>
                /\ HasStatus(redis', CurrentFile(w), "completed")
                      \/ HasStatus(redis', CurrentFile(w), "error")
                /\ HasStatus(redis', CurrentFile(w), "completed") =>
                      /\ svc'[w].steps = CompletedSteps
                      /\ CurrentFile(w) \in shared'.cleaned
                      /\ CurrentFile(w) \in shared'.summaries
                /\ svc'[w].steps # CompletedSteps =>
                      /\ HasStatus(redis', CurrentFile(w), "error")
                      /\ CurrentFile(w) \in shared'.summaries
                            => CurrentFile(w) \in shared.summaries
                /\ \E n \in 1..Len(CompletedSteps) :
                      SubSeq(svc'[w].steps, 1, n - 1) = SubSeq(CompletedSteps, 1, n - 1)
                          /\ Len(svc'[w].steps) = n]_vars

C27_SummaryWriteFailed ==
    \E w \in Workers :
        /\ svc[w].steps = <<"assessed", "cleaned", "summarised", "csv_written", "OSError">>
        /\ svc[w].pc = "idle"
        /\ \E f \in svc[w].failed :
              /\ HasStatus(redis, f, "error")
              /\ f \in shared.cleaned
              /\ f \notin shared.summaries

-----------------------------------------------------------------------------
(* Python floats (binary64), in which the checker computes the unrounded    *)
(* scores.  A float is zero, [b |-> <<>>, e |-> 0], or its 53 significant    *)
(* bits b, the first of them 1, with the exponent e of the last:            *)
(* the number b * 2^e.                                                      *)

Mantissa == 53    \* significant bits of a float
F64Zero == [b |-> <<>>, e |-> 0]
Zeros(n) == [i \in 1..n |-> 0]

RECURSIVE IntBits(_)
(* The binary digits of the natural number q, the first 1 unless q = 0. *)
IntBits(q) == IF q = 0 THEN <<>> ELSE Append(IntBits(q \div 2), q % 2)

StripZeros(s) ==
    IF \A i \in DOMAIN s : s[i] = 0 THEN <<>>
    ELSE SubSeq(s, CHOOSE i \in DOMAIN s : s[i] = 1 /\ \A j \in 1..(i - 1) : s[j] = 0,
                Len(s))

(* keep + 1 for Mantissa bits keep, the exponent of the last being e. *)
f64_next(keep, e) ==
    IF \A i \in DOMAIN keep : keep[i] = 1
    THEN [b |-> <<1>> \o Zeros(Mantissa - 1), e |-> e + 1]
    ELSE LET p == CHOOSE p \in DOMAIN keep :
                     keep[p] = 0 /\ \A q \in (p + 1)..Len(keep) : keep[q] = 1
         IN  [b |-> SubSeq(keep, 1, p - 1) \o <<1>> \o Zeros(Len(keep) - p), e |-> e]

(* The float nearest to the number s * 2^e (+ something below 2^e if        *)
(* sticky), s being bits of which the first is 1: round to nearest, ties to *)
(* even.                                                                    *)
f64_nearest(s, e, sticky) ==
    IF Len(s) <= Mantissa
    THEN [b |-> s \o Zeros(Mantissa - Len(s)), e |-> e - (Mantissa - Len(s))]
    ELSE IF /\ s[Mantissa + 1] = 1
            /\ \/ sticky
               \/ \E i \in (Mantissa + 2)..Len(s) : s[i] = 1
               \/ s[Mantissa] = 1
         THEN f64_next(SubSeq(s, 1, Mantissa), e + (Len(s) - Mantissa))
         ELSE [b |-> SubSeq(s, 1, Mantissa), e |-> e + (Len(s) - Mantissa)]

f64_round(bits, e, sticky) ==
    IF StripZeros(bits) = <<>> THEN F64Zero ELSE f64_nearest(StripZeros(bits), e, sticky)

(* float(k) of a natural number k *)
f64_of_int(k) == f64_round(IntBits(k), 0, FALSE)

RECURSIVE LongDiv(_, _, _)
(* The long division of the bits b, brought down after the remainder r, by  *)
(* k: the digits q of the quotient and the remainder r left (the first      *)
(* half of b, then the second).                                             *)
LongDiv(b, k, r) ==
    IF b = <<>> THEN [q |-> <<>>, r |-> r]
    ELSE IF Len(b) = 1
         THEN [q |-> <<(2 * r + b[1]) \div k>>, r |-> (2 * r + b[1]) % k]
    ELSE LET first == LongDiv(SubSeq(b, 1, Len(b) \div 2), k, r)
             second == LongDiv(SubSeq(b, Len(b) \div 2 + 1, Len(b)), k, first.r)
         IN  [q |-> first.q \o second.q, r |-> second.r]

(* The quotient of the number bits * 2^e by the natural number k > 0, 64    *)
(* more binary places taken.                                                *)
f64_quotient(bits, e, k) ==
    LET d == LongDiv(bits \o Zeros(64), k, 0)
    IN  f64_round(d.q, e - 64, d.r # 0)

(* c / n of two natural numbers, n > 0 *)
f64_int_div(c, n) == f64_quotient(IntBits(c), 0, n)

(* x / k of a float x and a natural number k > 0 *)
f64_div_int(x, k) == f64_quotient(x.b, x.e, k)

(* The value e, the carry c having been evaluated before it. *)
After(c, e) == IF c >= 0 THEN e ELSE e

RECURSIVE MulBits(_, _, _)
(* The bits b times m, plus carry: as many bits s and the carry c out of    *)
(* them (the second half of b, then the first).                             *)
MulBits(b, m, carry) ==
    IF b = <<>> THEN [s |-> <<>>, c |-> carry]
    ELSE IF Len(b) = 1
         THEN [s |-> <<(b[1] * m + carry) % 2>>, c |-> (b[1] * m + carry) \div 2]
    ELSE LET second == MulBits(SubSeq(b, Len(b) \div 2 + 1, Len(b)), m, carry)
             first == MulBits(SubSeq(b, 1, Len(b) \div 2), m, second.c)
         IN  After(second.c, [s |-> first.s \o second.s, c |-> first.c])

(* x * m of a float x and a natural number m *)
f64_mul_int(x, m) ==
    LET p == MulBits(x.b, m, 0)
    IN  f64_round(IntBits(p.c) \o p.s, x.e, FALSE)

RECURSIVE AddBits(_, _, _)
(* The sum of two numbers of as many bits, plus carry: as many bits s and   *)
(* the carry c out of them.                                                 *)
AddBits(a, b, carry) ==
    IF a = <<>> THEN [s |-> <<>>, c |-> carry]
    ELSE IF Len(a) = 1
         THEN [s |-> <<(a[1] + b[1] + carry) % 2>>, c |-> (a[1] + b[1] + carry) \div 2]
    ELSE LET second == AddBits(SubSeq(a, Len(a) \div 2 + 1, Len(a)),
                               SubSeq(b, Len(b) \div 2 + 1, Len(b)), carry)
             first == AddBits(SubSeq(a, 1, Len(a) \div 2),
                              SubSeq(b, 1, Len(b) \div 2), second.c)
         IN  After(second.c, [s |-> first.s \o second.s, c |-> first.c])

(* a + b of two numbers of as many bits *)
SumBits(a, b) ==
    LET t == AddBits(a, b, 0)
    IN  <<t.c>> \o t.s

(* The bits of x with the exponent e <= x.e of the last, led by zeros to    *)
(* the length n.                                                            *)
Aligned(x, e, n) == Zeros(n - Len(x.b) - (x.e - e)) \o x.b \o Zeros(x.e - e)
MinOf(a, b) == IF a <= b THEN a ELSE b
MaxOf(a, b) == IF a >= b THEN a ELSE b
CommonExp(x, y) == MinOf(x.e, y.e)
CommonLen(x, y) == MaxOf(Len(x.b) + x.e, Len(y.b) + y.e) - CommonExp(x, y)

(* x + y *)
f64_add(x, y) ==
    IF x = F64Zero THEN y
    ELSE IF y = F64Zero THEN x
    ELSE f64_round(SumBits(Aligned(x, CommonExp(x, y), CommonLen(x, y)),
                           Aligned(y, CommonExp(x, y), CommonLen(x, y))),
                   CommonExp(x, y), FALSE)

(* a < b for two sequences of as many bits *)
BitsLess(a, b) ==
    \E i \in DOMAIN a : a[i] < b[i] /\ \A j \in 1..(i - 1) : a[j] = b[j]

(* x < y *)
f64_less(x, y) ==
    IF y = F64Zero THEN FALSE
    ELSE IF x = F64Zero THEN TRUE
    ELSE BitsLess(Aligned(x, CommonExp(x, y), CommonLen(x, y)),
                  Aligned(y, CommonExp(x, y), CommonLen(x, y)))

RECURSIVE f64_sum(_)
(* total_score, to which the percentages were added one by one from 0 *)
f64_sum(s) == IF s = <<>> THEN F64Zero ELSE f64_add(f64_sum(SubSeq(s, 1, Len(s) - 1)), s[Len(s)])

(* The float above x > 0, k times. *)
RECURSIVE f64_up(_, _)
f64_up(x, k) == IF k = 0 THEN x ELSE f64_up(f64_next(x.b, x.e), k - 1)

(* (non_null_cells / total_cells) * 100 if total_cells > 0 else 0 *)
overall_completeness_f64(non_null_cells, total_cells) ==
    IF total_cells > 0
    THEN f64_mul_int(f64_int_div(non_null_cells, total_cells), 100)
    ELSE F64Zero

(* (valid_count / total_count) * 100 if total_count > 0 else 100 *)
validity_percentage_f64(valid_count, total_count) ==
    IF total_count > 0
    THEN f64_mul_int(f64_int_div(valid_count, total_count), 100)
    ELSE f64_of_int(100)

(* total_score after the loop over the columns *)
total_score_f64(t, data_cols) ==
    f64_sum([k \in DOMAIN data_cols |->
                validity_percentage_f64(NotNullCount(t.cols[data_cols[k]].vals),
                                        NRows(t))])

(* A validity that is the total of the columns, not their mean. *)
total_validity_f64(total_score, columns_assessed) ==
    IF columns_assessed > 0 THEN total_score ELSE f64_of_int(100)

(* total_score / columns_assessed if columns_assessed > 0 else 100 *)
overall_validity_f64(total_score, columns_assessed) ==
    IF columns_assessed > 0 THEN f64_div_int(total_score, columns_assessed)
    ELSE f64_of_int(100)

(* overall_completeness and overall_validity of the two assessments, before *)
(* they are rounded, as floats and as exact numbers.                        *)
unrounded_scores(t, data_cols) ==
    [kind |-> "unrounded",
     completeness |->
        IF data_cols = <<>> THEN f64_of_int(100)
        ELSE overall_completeness_f64(NonNullCells(t, data_cols),
                                      NRows(t) * Len(data_cols)),
     validity |-> overall_validity_f64(total_score_f64(t, data_cols), Len(data_cols)),
     exact_completeness |->
        IF data_cols = <<>> THEN RInt(100)
        ELSE overall_completeness(NonNullCells(t, data_cols), NRows(t) * Len(data_cols)),
     exact_validity |->
        overall_validity(
            SumRat([k \in DOMAIN data_cols |->
                      validity_percentage(NotNullCount(t.cols[data_cols[k]].vals),
                                          NRows(t))]),
            Len(data_cols))]

(* _assess_completeness and _assess_validity up to their unrounded scores *)
AssessUnrounded ==
    /\ pc = "ready"
    /\ report' = unrounded_scores(df, DataCols(df))
    /\ pc' = "assessed"
    /\ UNCHANGED <<input, df, cleaned_df, clock, pass>>
    /\ UNCHANGED service_vars

(* A column of n rows of which the first c are present. *)
ShareColumn(name, n, c) ==
    Column(name, "float64", [i \in 1..n |-> IF i <= c THEN NumInt(1) ELSE Null])

ShareCounts == {0, ShareRows \div 2, ShareRows - 2, ShareRows - 1, ShareRows}
ShareNames == <<<<120>>, <<121>>, <<122>>>>

(* Tables of no row or of ShareRows rows and of one, two or three columns,  *)
(* each with one of the counts of present values.                           *)
ShareTables ==
    UNION {UNION {WithOrWithoutMetadata(n,
                     [j \in 1..Len(cs) |->
                         ShareColumn(ShareNames[j], n, IF n = 0 THEN 0 ELSE cs[j])]) :
                    cs \in UNION {[1..k -> ShareCounts] : k \in 1..3}} :
             n \in {0, ShareRows}}

InitFloat ==
    /\ input \in ShareTables
    /\ df = input
    /\ cleaned_df = EmptyTable
    /\ pc = "ready"
    /\ clock = 0
    /\ report = NoReport
    /\ pass = 1
    /\ NoService

SpecFloat == InitFloat /\ [][AssessUnrounded]_vars

(* x and y are the same float or at most MaxUlps floats apart. *)
NearFloats(x, y) ==
    \/ x = y
    \/ /\ x # F64Zero
       /\ y # F64Zero
       /\ ~f64_less(f64_up(x, MaxUlps), y)
       /\ ~f64_less(f64_up(y, MaxUlps), x)

UnroundedOfDataTable ==
    /\ report.kind = "unrounded"
    /\ DataCols(df) # <<>>

(* C28 (as the code has it): for a table with at least one row and one      *)
(* non-metadata column the unrounded validity and completeness scores are   *)
(* the same number in exact arithmetic, and as the floats the code computes *)
(* they are the same float when there is one such column and at most        *)
(* MaxUlps floats apart when there are more; for a table of no row the      *)
(* completeness is 0 and the validity 100.                                  *)
C28_UnroundedScoresNearlyEqual ==
    UnroundedOfDataTable =>
        IF NRows(df) = 0
        THEN /\ report.completeness = F64Zero
             /\ report.validity = f64_of_int(100)
             /\ report.exact_completeness # report.exact_validity
        ELSE /\ report.exact_completeness = report.exact_validity
             /\ NearFloats(report.completeness, report.validity)
             /\ Len(DataCols(df)) = 1 => report.completeness = report.validity

(* C28 (as stated): for every table with at least one row and one           *)
(* non-metadata column the unrounded validity score equals the unrounded    *)
(* completeness score, and for a table of no row they differ.               *)
C28_UnroundedScoresEqual ==
    UnroundedOfDataTable =>
        IF NRows(df) = 0 THEN report.completeness # report.validity
        ELSE report.completeness = report.validity

(* 17, 33 and 34 of 35 values present: the completeness is 80.0, the        *)
(* validity is below it.                                                    *)
C28_ScoresOnTwoSidesOfEighty ==
    /\ UnroundedOfDataTable
    /\ NRows(df) = ShareRows
    /\ Len(DataCols(df)) = 3
    /\ report.completeness = f64_of_int(quality_thresholds.completeness)
    /\ f64_less(report.validity, report.completeness)

-----------------------------------------------------------------------------
(* The uniqueness assessment of a table and the deduplication of the same   *)
(* table: at "deduplicated" cleaned_df is df without its duplicate rows,    *)
(* and report is the assessment of df.                                      *)
UniquenessAgrees(Scored(_, _, _)) ==
    (/\ pc = "deduplicated"
     /\ report.kind = "report"
     /\ DataCols(df) # <<>>) =>
        /\ report.uniqueness.duplicate_rows = NRows(df) - NRows(cleaned_df)
        /\ IF NRows(df) = 0 THEN report.uniqueness.score = RInt(100)
           ELSE Scored(report.uniqueness.score, NRows(cleaned_df), NRows(df))

(* C29 (as the code has it): for a table with a non-metadata column, the    *)
(* 'duplicate_rows' of the uniqueness assessment is the number of rows the  *)
(* deduplication stage removes from the same table, and the uniqueness      *)
(* score is 100 * (rows remaining) / (original rows) rounded to two         *)
(* decimals, and 100 for a table of no row.                                 *)
C29_DuplicateRowsAreRowsRemoved == UniquenessAgrees(RoundedScore)

(* C29 (as stated): the uniqueness score is 100 * (rows remaining) /        *)
(* (original rows) itself.                                                  *)
C29_ScoreIsShareRemaining == UniquenessAgrees(ExactScore)

(* Two of three rows remain: one duplicate row, the score 66.67. *)
C29_OneOfThreeRowsRemoved ==
    /\ pc = "deduplicated"
    /\ pass = 1
    /\ report.kind = "report"
    /\ DataCols(df) # <<>>
    /\ NRows(df) = 3
    /\ NRows(cleaned_df) = 2
    /\ report.uniqueness.duplicate_rows = 1

-----------------------------------------------------------------------------
(* The branch of the handler that fills the absent values of col: 'unknown' *)
(* for text, the median for numbers, else the mode or, without a mode, the  *)
(* forward fill.                                                            *)
FillBranch(col) ==
    IF col.dtype = "object" THEN "unknown"
    ELSE IF IsNumericDtype(col.dtype) THEN "median"
    ELSE IF dropna(col.vals) # <<>> THEN "mode"
    ELSE "ffill"

(* C30: the missing-value stage never forward-fills: a non-metadata column  *)
(* all of whose values are absent is dropped, so a column that is kept and  *)
(* has an absent value is filled by another branch; and a table of no row   *)
(* leaves the stage as it entered it.                                       *)
C30_ForwardFillNeverExecuted ==
    [][(pc = "renamed" /\ pc' = "imputed") =>
          /\ \A j \in DataColumns(cleaned_df) :
                /\ (NRows(cleaned_df) > 0 /\ dropna(cleaned_df.cols[j].vals) = <<>>) =>
                      cleaned_df.cols[j].name \notin ColumnSet(cleaned_df')
                /\ (/\ cleaned_df.cols[j].name \in ColumnSet(cleaned_df')
                    /\ NullCount(cleaned_df.cols[j].vals) > 0) =>
                      FillBranch(cleaned_df.cols[j]) # "ffill"
          /\ NRows(cleaned_df) = 0 => cleaned_df' = cleaned_df]_vars

(* A datetime column without a present value was dropped. *)
C30_AllAbsentDatetimeDropped ==
    /\ pc = "imputed"
    /\ pass = 1
    /\ NRows(cleaned_df) > 0
    /\ DataColumns(cleaned_df) = {}
    /\ \E j \in DataColumns(input) :
          /\ input.cols[j].dtype = "datetime64[ns]"
          /\ dropna(input.cols[j].vals) = <<>>

====
